---- MODULE Spec2Model ----
(***************************************************************************)
(* A model of pix-historial: the retry decorator (app/utils.py), the       *)
(* snapshot store (app/database.py), the collection service                *)
(* (app/services.py), the rate limiter (app/rate_limiter.py) and the       *)
(* application with its middleware and handlers (app/main.py,              *)
(* app/correlation.py).                                                    *)
(*                                                                         *)
(* The specifications of the module:                                       *)
(*   SpecRetry    one run of a function wrapped by retry_with_backoff      *)
(*   Spec         the QuoteTracker store and the clock                     *)
(*   SpecCycle    the collection cycles over the store                     *)
(*   SpecTracker  the tracker's calls and the reads of its connection       *)
(*   SpecSched    the scheduler starting the collection cycles             *)
(*   SpecExtract  the quote extraction applied to one Exchange             *)
(*   SpecLimiter  the rate limiter called for its clients                  *)
(*   SpecHttp     requests to the endpoints through the middleware stack   *)
(*   SpecHandlers requests whose endpoint raises                           *)
(***************************************************************************)
EXTENDS Integers, Sequences, FiniteSets, TLC

VARIABLES
    \* ---- retry_with_backoff: one wrapped call (utils.py) ----
    r_cfg,            \* the decorator's arguments
    r_kind,           \* "async" | "sync": the wrapper iscoroutinefunction picks
    r_pc,             \* "loop" | "sleep" | "returned" | "raised"
    r_attempt,        \* the loop variable `attempt`
    r_hist,           \* outcome of every invocation of func so far: "ok" or a class
    r_last_exception, \* `last_exception`: 0 is None, i the exception of call i
    r_result,         \* what the wrapper returned or raised
    r_delays,         \* `delay` before jitter, one entry per sleep
    r_sleeps,         \* the sleeps taken: [dur, mode]
    r_log,            \* the records the wrapper passed to logger.warning and logger.error
    \* ---- QuoteTracker and its collection (database.py) ----
    store,            \* the snapshots collection, in insertion order
    indexes_created,  \* QuoteTracker._indexes_created
    coll_log,         \* createIndexes() runs completed, and what the latest call issued
    conn,             \* _tracker and the tracker's _client, _db and _collection
    now,              \* the wall clock (datetime.now(timezone.utc))
    ret,              \* the latest tracker call: its arguments and its result
    prev,             \* the tracker call before that, when the two are a pair
    \* ---- one collection cycle (services.py) ----
    c_pc,             \* "idle" | "fetch" | "net_sleep" | "save" | "db_sleep" | "bg_sleep"
    c_bg_attempt,     \* `attempt` of collect_quotes_background's wrapper
    c_net_attempt,    \* `attempt` of _fetch_from_api's wrapper
    c_db_attempt,     \* `attempt` of _save_to_database's wrapper
    c_data,           \* the parsed payload handed to _save_to_database
    c_result,         \* how the latest cycle ended
    c_fsq,            \* what the latest fetch_and_save_quotes invocation returned or raised
    c_count,          \* calls so far: requests.get in this invocation and in this
                      \* cycle, save_snapshot and documents added in this cycle
    c_prev,           \* how the cycle before the scheduler's latest one ended
    \* ---- the scheduler of the collection job (main.py) ----
    s_now,            \* the scheduler's clock, in minutes
    s_fired,          \* the latest fire time of the cron trigger (-1: none yet)
    s_due,            \* the fire times passed since the job was last processed
    s_last,           \* what the scheduler's latest processing of the job did
    \* ---- quote extraction applied to one Exchange (database.py) ----
    x_fn,             \* "none" | the extraction that was applied
    x_exchange,       \* the Exchange it is applied to
    x_rate,           \* what it returned
    \* ---- InMemoryRateLimiter (rate_limiter.py) ----
    rl_requests,      \* self.requests: client key -> the timestamps recorded for it
    rl_now,           \* the clock the limiter reads (datetime.now()), in half windows
    rl_ret,           \* the latest limiter call: [op, key, value]
    rl_log,           \* every is_allowed call so far, per key: [at, allowed]
    rl_calls,         \* the number of limiter calls and requests made in this run
    \* ---- one HTTP request through the application (main.py) ----
    h_req,            \* the latest request
    h_route,          \* what the router did with it: [endpoint, calls, exc]
    h_resp            \* the response the client got

retryVars == <<r_cfg, r_kind, r_pc, r_attempt, r_hist, r_last_exception,
               r_result, r_delays, r_sleeps, r_log>>
storeVars == <<store, indexes_created, coll_log, conn, now, ret, prev>>
cycleVars == <<c_pc, c_bg_attempt, c_net_attempt, c_db_attempt, c_data, c_result,
               c_fsq, c_count, c_prev>>
extractVars == <<x_fn, x_exchange, x_rate>>
\* What the retry run, the tracker's operations and the collection cycle leave alone.
limiterVars == <<rl_requests, rl_now, rl_ret, rl_log, rl_calls>>
httpVars == <<h_req, h_route, h_resp>>
webVars == <<extractVars, limiterVars, httpVars>>
schedVars == <<s_now, s_fired, s_due, s_last>>
vars == <<retryVars, storeVars, cycleVars, webVars, schedVars>>

Min(a, b) == IF a <= b THEN a ELSE b

RECURSIVE Pow(_, _)
Pow(b, e) == IF e = 0 THEN 1 ELSE b * Pow(b, e - 1)

(***************************************************************************)
(* Exception classes.  Ancestors(c) is the set of classes c is an instance *)
(* of (its method resolution order), so `except classes` catches c exactly *)
(* when IsInstance(c, classes).                                            *)
(***************************************************************************)
RequestsClasses == {"RequestException", "ConnectionError", "Timeout",
                    "ConnectTimeout", "ReadTimeout", "HTTPError"}
ServiceClasses == {"QuoteServiceError", "QuoteAPIConnectionError",
                   "QuoteAPITimeoutError", "QuoteDatabaseError",
                   "QuoteDataValidationError", "QuoteDataParsingError"}
ExcClasses == RequestsClasses \cup ServiceClasses
                 \cup {"Exception", "ValueError", "RuntimeError", "PyMongoError"}

Ancestors(c) ==
    CASE c = "Exception"        -> {"Exception"}
      [] c = "RequestException" -> {c, "Exception"}
      [] c = "ConnectionError"  -> {c, "RequestException", "Exception"}
      [] c = "Timeout"          -> {c, "RequestException", "Exception"}
      [] c = "HTTPError"        -> {c, "RequestException", "Exception"}
      [] c = "ReadTimeout"      -> {c, "Timeout", "RequestException", "Exception"}
      [] c = "ConnectTimeout"   -> {c, "ConnectionError", "Timeout",
                                    "RequestException", "Exception"}
      [] c = "QuoteServiceError" -> {c, "Exception"}
      [] c \in ServiceClasses   -> {c, "QuoteServiceError", "Exception"}
      [] OTHER                  -> {c, "Exception"}

IsInstance(c, classes) == Ancestors(c) \cap classes # {}

(***************************************************************************)
(* RetryConfig.  Durations are in sixteenths of a second, so that          *)
(* base_delay 0.5 and the jitter factors are whole numbers.                *)
(***************************************************************************)
TicksPerSecond == 2 * 8

NETWORK_RETRY ==
    [max_attempts |-> 3, base_delay |-> TicksPerSecond, max_delay |-> 10 * TicksPerSecond,
     backoff_factor |-> 2, jitter |-> TRUE]
DATABASE_RETRY ==
    [max_attempts |-> 2, base_delay |-> TicksPerSecond \div 2, max_delay |-> 5 * TicksPerSecond,
     backoff_factor |-> 2, jitter |-> TRUE]
BACKGROUND_RETRY ==
    [max_attempts |-> 2, base_delay |-> 2 * TicksPerSecond, max_delay |-> 30 * TicksPerSecond,
     backoff_factor |-> 2, jitter |-> TRUE]

\* The `exceptions` argument at the three decorated functions.
NetworkExceptions == {"Timeout", "ConnectionError", "RequestException"}
DatabaseExceptions == {"Exception"}
BackgroundExceptions == {"QuoteAPITimeoutError", "QuoteAPIConnectionError",
                         "QuoteDataParsingError"}

(***************************************************************************)
(* retry_with_backoff: the pieces of the wrapper's loop body.              *)
(***************************************************************************)
\* `except exceptions as e`: is the raised class caught by the wrapper?
IsRetryableAlways(cls, exceptions) == TRUE
IsRetryable(cls, exceptions) == IsInstance(cls, exceptions)

\* `for attempt in range(max_attempts)`: the attempt a wrapper's loop starts at,
\* whatever attempt an earlier call of the wrapper ended at.
RangeStartCarried(attempt) == attempt
RangeStart(attempt) == 0

\* `if attempt == max_attempts - 1`
IsFinalAttemptEarly(attempt, max_attempts) == attempt = max_attempts - 2
IsFinalAttempt(attempt, max_attempts) == attempt = max_attempts - 1

\* `delay = min(base_delay * (backoff_factor**attempt), max_delay)`
BackoffDelayUncapped(cfg, attempt) == cfg.base_delay * Pow(cfg.backoff_factor, attempt)
BackoffDelay(cfg, attempt) ==
    Min(cfg.base_delay * Pow(cfg.backoff_factor, attempt), cfg.max_delay)

\* `0.5 + random.random() * 0.5` lies in [0.5, 1.0): the factors, in eighths.
JitterFactors == {4, 5, 7}

\* `if jitter: delay *= 0.5 + random.random() * 0.5`
SleepDurations(cfg, delay) ==
    IF cfg.jitter THEN {(delay * f) \div 8 : f \in JitterFactors} ELSE {delay}

\* `await asyncio.sleep(delay)` in async_wrapper, `time.sleep(delay)` in sync_wrapper
SleepMode(kind) == IF kind = "async" THEN "suspend" ELSE "block"

NoResult == [kind |-> "none", id |-> 0, cls |-> "", via |-> ""]

\* A record of the wrapper's log.  exc is the invocation whose exception the message
\* ends with (`Error: {e}`).
LogRecord(level, func, attempts, max_attempts, delay, exc) ==
    [level |-> level, func |-> func, attempts |-> attempts,
     max_attempts |-> max_attempts, delay |-> delay, exc |-> exc]

\* logger.error(f"Function {func.__name__} failed after {max_attempts} attempts.
\* Final error: {e}")
ErrorRecordAnonymous(func, max_attempts, exc) ==
    LogRecord("error", "", max_attempts, max_attempts, 0, exc)
ErrorRecord(func, max_attempts, exc) ==
    LogRecord("error", func, max_attempts, max_attempts, 0, exc)

\* logger.warning(f"Attempt {attempt + 1}/{max_attempts} failed for {func.__name__}.
\* Retrying in {delay:.2f}s. Error: {e}")
WarningRecord(func, attempt, max_attempts, delay, exc) ==
    LogRecord("warning", func, attempt + 1, max_attempts, delay, exc)

\* Bounds of the retry runs.
MaxAttempts == 3

\* What the wrapped function may do on one invocation: return, or raise one of these.
RaisedClasses == {"Timeout", "ConnectTimeout", "HTTPError", "ValueError",
                  "QuoteDataParsingError"}

\* A max_delay the second delay of a profile already reaches: one and a half times
\* its base_delay.
ShortMaxDelay(cfg) == cfg.base_delay + cfg.base_delay \div 2

\* The decorator's arguments: the three decorated functions of services.py, with
\* max_attempts, jitter and max_delay varied.
CallSites ==
    { [p EXCEPT !.max_attempts = m, !.jitter = j,
                !.max_delay = IF short THEN ShortMaxDelay(p) ELSE p.max_delay] :
        p \in { [name |-> "network"] @@ NETWORK_RETRY @@ [exceptions |-> NetworkExceptions],
                [name |-> "database"] @@ DATABASE_RETRY @@ [exceptions |-> DatabaseExceptions],
                [name |-> "background"] @@ BACKGROUND_RETRY
                    @@ [exceptions |-> BackgroundExceptions] },
        m \in 0..MaxAttempts, j \in BOOLEAN, short \in BOOLEAN }

\* One iteration of `for attempt in range(max_attempts)`: the call of func and the
\* except clause.
RetryCall ==
    /\ r_pc = "loop"
    /\ r_attempt < r_cfg.max_attempts
    /\ \E out \in {"ok"} \cup RaisedClasses :
        LET i == Len(r_hist) + 1
            delay == BackoffDelay(r_cfg, r_attempt)
        IN  /\ r_hist' = Append(r_hist, out)
            /\ IF out = "ok"
               THEN /\ r_pc' = "returned"
                    /\ r_result' = [kind |-> "return", id |-> i, cls |-> "", via |-> "return"]
                    /\ UNCHANGED <<r_last_exception, r_delays, r_sleeps, r_log>>
               ELSE IF ~IsRetryable(out, r_cfg.exceptions)
               THEN /\ r_pc' = "raised"
                    /\ r_result' = [kind |-> "raise", id |-> i, cls |-> out,
                                    via |-> "propagate"]
                    /\ UNCHANGED <<r_last_exception, r_delays, r_sleeps, r_log>>
               ELSE /\ r_last_exception' = i
                    /\ IF IsFinalAttempt(r_attempt, r_cfg.max_attempts)
                       THEN /\ r_pc' = "raised"
                            /\ r_result' = [kind |-> "raise", id |-> i, cls |-> out,
                                            via |-> "reraise"]
                            /\ r_log' = Append(r_log,
                                   ErrorRecord(r_cfg.name, r_cfg.max_attempts, i))
                            /\ UNCHANGED <<r_delays, r_sleeps>>
                       ELSE /\ r_pc' = "sleep"
                            /\ r_delays' = Append(r_delays, delay)
                            /\ \E d \in SleepDurations(r_cfg, delay) :
                                 /\ r_log' = Append(r_log,
                                        WarningRecord(r_cfg.name, r_attempt,
                                                      r_cfg.max_attempts, d, i))
                                 /\ r_sleeps' = Append(r_sleeps,
                                        [dur |-> d, mode |-> SleepMode(r_kind)])
                            /\ UNCHANGED r_result
    /\ UNCHANGED <<r_cfg, r_kind, r_attempt>>
    /\ UNCHANGED <<storeVars, cycleVars, webVars, schedVars>>

\* The sleep ends and the loop moves to the next attempt.
RetryWake ==
    /\ r_pc = "sleep"
    /\ r_attempt' = r_attempt + 1
    /\ r_pc' = "loop"
    /\ UNCHANGED <<r_cfg, r_kind, r_hist, r_last_exception, r_result, r_delays, r_sleeps, r_log>>
    /\ UNCHANGED <<storeVars, cycleVars, webVars, schedVars>>

\* The statements after the loop: `if last_exception: raise last_exception
\* else: raise RuntimeError(...)`.
RetryFallThrough ==
    /\ r_pc = "loop"
    /\ r_attempt >= r_cfg.max_attempts
    /\ r_pc' = "raised"
    /\ r_result' = IF r_last_exception # 0
                   THEN [kind |-> "raise", id |-> r_last_exception,
                         cls |-> r_hist[r_last_exception], via |-> "fallthrough"]
                   ELSE [kind |-> "raise", id |-> 0, cls |-> "RuntimeError",
                         via |-> "fallthrough"]
    /\ UNCHANGED <<r_cfg, r_kind, r_attempt, r_hist, r_last_exception, r_delays, r_sleeps,
                   r_log>>
    /\ UNCHANGED <<storeVars, cycleVars, webVars, schedVars>>

NextRetry == RetryCall \/ RetryWake \/ RetryFallThrough

(***************************************************************************)
(* The two wrappers of retry_with_backoff, each as a function of the       *)
(* outcomes the wrapped function gives.  A run is what a wrapper has done  *)
(* so far: the attempt its loop is at, the invocations made, the delays    *)
(* computed before jitter, how each was slept, last_exception and the way  *)
(* the call ended.                                                         *)
(***************************************************************************)
WrapperStart ==
    [attempt |-> 0, calls |-> 0, delays |-> <<>>, modes |-> <<>>, last_exception |-> 0,
     result |-> NoResult]

\* async_wrapper: one pass through `for attempt in range(max_attempts)`, or the
\* statements after the loop.
async_wrapper(cfg, outs, run) ==
    IF run.attempt >= cfg.max_attempts
    THEN [run EXCEPT !.result =
              IF run.last_exception # 0
              THEN [kind |-> "raise", id |-> run.last_exception,
                    cls |-> outs[run.last_exception], via |-> "fallthrough"]
              ELSE [kind |-> "raise", id |-> 0, cls |-> "RuntimeError",
                    via |-> "fallthrough"]]
    ELSE LET i == run.calls + 1
             out == outs[i]
             called == [run EXCEPT !.calls = i]
         IN  IF out = "ok"
             THEN [called EXCEPT !.result =
                       [kind |-> "return", id |-> i, cls |-> "", via |-> "return"]]
             ELSE IF ~IsRetryable(out, cfg.exceptions)
             THEN [called EXCEPT !.result =
                       [kind |-> "raise", id |-> i, cls |-> out, via |-> "propagate"]]
             ELSE IF IsFinalAttempt(run.attempt, cfg.max_attempts)
             THEN [called EXCEPT !.last_exception = i,
                                 !.result = [kind |-> "raise", id |-> i, cls |-> out,
                                             via |-> "reraise"]]
             ELSE [called EXCEPT !.last_exception = i,
                                 !.delays = Append(@, BackoffDelay(cfg, run.attempt)),
                                 !.modes = Append(@, SleepMode("async")),
                                 !.attempt = @ + 1]

\* sync_wrapper, likewise.
sync_wrapper_constant_delay(cfg, outs, run) ==
    IF run.attempt >= cfg.max_attempts
    THEN [run EXCEPT !.result =
              IF run.last_exception # 0
              THEN [kind |-> "raise", id |-> run.last_exception,
                    cls |-> outs[run.last_exception], via |-> "fallthrough"]
              ELSE [kind |-> "raise", id |-> 0, cls |-> "RuntimeError",
                    via |-> "fallthrough"]]
    ELSE LET i == run.calls + 1
             out == outs[i]
             called == [run EXCEPT !.calls = i]
         IN  IF out = "ok"
             THEN [called EXCEPT !.result =
                       [kind |-> "return", id |-> i, cls |-> "", via |-> "return"]]
             ELSE IF ~IsRetryable(out, cfg.exceptions)
             THEN [called EXCEPT !.result =
                       [kind |-> "raise", id |-> i, cls |-> out, via |-> "propagate"]]
             ELSE IF IsFinalAttempt(run.attempt, cfg.max_attempts)
             THEN [called EXCEPT !.last_exception = i,
                                 !.result = [kind |-> "raise", id |-> i, cls |-> out,
                                             via |-> "reraise"]]
             ELSE [called EXCEPT !.last_exception = i,
                                 !.delays = Append(@, cfg.base_delay),
                                 !.modes = Append(@, SleepMode("sync")),
                                 !.attempt = @ + 1]
sync_wrapper(cfg, outs, run) ==
    IF run.attempt >= cfg.max_attempts
    THEN [run EXCEPT !.result =
              IF run.last_exception # 0
              THEN [kind |-> "raise", id |-> run.last_exception,
                    cls |-> outs[run.last_exception], via |-> "fallthrough"]
              ELSE [kind |-> "raise", id |-> 0, cls |-> "RuntimeError",
                    via |-> "fallthrough"]]
    ELSE LET i == run.calls + 1
             out == outs[i]
             called == [run EXCEPT !.calls = i]
         IN  IF out = "ok"
             THEN [called EXCEPT !.result =
                       [kind |-> "return", id |-> i, cls |-> "", via |-> "return"]]
             ELSE IF ~IsRetryable(out, cfg.exceptions)
             THEN [called EXCEPT !.result =
                       [kind |-> "raise", id |-> i, cls |-> out, via |-> "propagate"]]
             ELSE IF IsFinalAttempt(run.attempt, cfg.max_attempts)
             THEN [called EXCEPT !.last_exception = i,
                                 !.result = [kind |-> "raise", id |-> i, cls |-> out,
                                             via |-> "reraise"]]
             ELSE [called EXCEPT !.last_exception = i,
                                 !.delays = Append(@, BackoffDelay(cfg, run.attempt)),
                                 !.modes = Append(@, SleepMode("sync")),
                                 !.attempt = @ + 1]

\* `if asyncio.iscoroutinefunction(func): return async_wrapper else: return sync_wrapper`
WrapperOf(kind, cfg, outs, run) ==
    IF kind = "async" THEN async_wrapper(cfg, outs, run) ELSE sync_wrapper(cfg, outs, run)

\* The wrapper of the kind run over the outcomes outs: it stops when the call has
\* ended, or at an invocation whose outcome outs does not hold.
RECURSIVE RunWrapper(_, _, _, _)
RunWrapper(kind, cfg, outs, run) ==
    IF \/ run.result # NoResult
       \/ run.attempt < cfg.max_attempts /\ run.calls >= Len(outs)
    THEN run
    ELSE RunWrapper(kind, cfg, outs, WrapperOf(kind, cfg, outs, run))

(***************************************************************************)
(* The snapshot store: QuoteTracker over its `snapshots` collection.       *)
(***************************************************************************)
\* Bounds of the store runs.
MaxDocs == 2
MaxTime == 2
MaxHours == 1
MaxLimit == 2

\* Time is counted in hours: the clock reads 0..MaxTime, and two snapshots taken at
\* the same reading carry the same timestamp.

Apps == {"app1", "app2"}
\* The providers the history is asked for: one the payloads hold and one they do not.
QueryApps == {"app1", "app3"}

Q(symbol, buy) == [symbol |-> symbol, buy |-> buy]
E(quotes) == [quotes |-> quotes]

\* The upstream payloads (ApiResponse: provider name -> Exchange) the runs use.
\*   PayloadBoth      both providers quote BRLARS, app2 twice and after another symbol
\*   PayloadOne       app1 quotes BRLARS at 0, app2 at 5
\*   PayloadNoBrlars  no provider quotes BRLARS
\*   PayloadZero      the only BRLARS quote is at 0
PayloadBoth ==
    [a \in Apps |-> IF a = "app1" THEN E(<<Q("BRLARS", 5)>>)
                    ELSE E(<<Q("USDARS", 7), Q("BRLARS", 6), Q("BRLARS", 5)>>)]
PayloadOne ==
    [a \in Apps |-> IF a = "app1" THEN E(<<Q("BRLARS", 0)>>) ELSE E(<<Q("BRLARS", 5)>>)]
PayloadNoBrlars ==
    [a \in Apps |-> IF a = "app1" THEN E(<<Q("USDARS", 7)>>) ELSE E(<<>>)]
PayloadZero == [a \in {"app1"} |-> E(<<Q("BRLARS", 0)>>)]
Payloads == {PayloadBoth, PayloadOne, PayloadNoBrlars, PayloadZero}

\* Optional[T]: <<>> is None, <<x>> is x.
None == <<>>
Some(x) == <<x>>

\* extract_brlars_rate: the buy of the first quote whose symbol is "BRLARS".
RECURSIVE extract_brlars_rate_from(_, _)
extract_brlars_rate_from(quotes, i) ==
    IF i > Len(quotes) THEN None
    ELSE IF quotes[i].symbol = "BRLARS" THEN Some(quotes[i].buy)
    ELSE extract_brlars_rate_from(quotes, i + 1)

\* (the last such quote instead of the first)
RECURSIVE extract_brlars_rate_last(_)
extract_brlars_rate_last(exchange) ==
    IF exchange.quotes = <<>> THEN None
    ELSE IF exchange.quotes[Len(exchange.quotes)].symbol = "BRLARS"
         THEN Some(exchange.quotes[Len(exchange.quotes)].buy)
         ELSE extract_brlars_rate_last(
                  E(SubSeq(exchange.quotes, 1, Len(exchange.quotes) - 1)))
extract_brlars_rate(exchange) == extract_brlars_rate_from(exchange.quotes, 1)

\* `if brlars_rate:` is false for None and for 0.0
Truthy(rate) == rate # None /\ rate[1] # 0

\* The loop of save_snapshot: quotes[app_name] = brlars_rate for every truthy rate.
ExtractQuotes(api_response) ==
    LET kept == {a \in DOMAIN api_response : Truthy(extract_brlars_rate(api_response[a]))}
    IN  [a \in kept |-> extract_brlars_rate(api_response[a])[1]]

\* `if not quotes: raise ValueError(...)`
NoQuotesNever(quotes) == FALSE
NoQuotes(quotes) == DOMAIN quotes = {}

\* QuoteSnapshot(quotes=quotes).model_dump() as insert_one stores it, with the _id
\* the collection gives it.
NewDoc(coll, quotes, t) == [id |-> Len(coll) + 1, timestamp |-> t, quotes |-> quotes]

\* collection.insert_one(doc)
InsertOneReplacing(coll, doc) == IF coll = <<>> THEN <<doc>> ELSE <<doc>> \o Tail(coll)
InsertOne(coll, doc) == Append(coll, doc)

\* `doc.pop("_id", None); QuoteSnapshot(**doc)`
StripIdKeeping(doc) == doc
StripId(doc) == [timestamp |-> doc.timestamp, quotes |-> doc.quotes]

Range(f) == {f[i] : i \in DOMAIN f}

\* The orders a sort=[("timestamp", DESCENDING)] may return the documents in: any
\* order that is descending by timestamp (equal timestamps come in either order).
SortAscending(docs) ==
    {s \in [1..Cardinality(docs) -> docs] :
        /\ \A i, j \in DOMAIN s : i # j => s[i] # s[j]
        /\ \A i, j \in DOMAIN s : i < j => s[i].timestamp <= s[j].timestamp}
SortDescending(docs) ==
    {s \in [1..Cardinality(docs) -> docs] :
        /\ \A i, j \in DOMAIN s : i # j => s[i] # s[j]
        /\ \A i, j \in DOMAIN s : i < j => s[i].timestamp >= s[j].timestamp}

\* The filter {"timestamp": {"$gte": since}}
MatchesAfter(doc, since) == doc.timestamp > since
Matches(doc, since) == doc.timestamp >= since

\* collection.find({"timestamp": {"$gte": since}}, sort=[("timestamp", DESCENDING)])
Find(coll, since) == SortDescending({d \in Range(coll) : Matches(d, since)})

\* collection.find_one(sort=[("timestamp", DESCENDING)])
FindOne(coll) ==
    IF coll = <<>> THEN {None} ELSE {Some(s[1]) : s \in SortDescending(Range(coll))}

\* `since = datetime.now(timezone.utc) - timedelta(hours=hours)`
SinceOfLate(t, hours) == t - hours + 1
SinceOf(t, hours) == t - hours

\* The loop of get_app_history over the snapshots, in their order.
RECURSIVE ProjectFrom(_, _, _)
ProjectFrom(snapshots, app_name, i) ==
    IF i > Len(snapshots) THEN <<>>
    ELSE (IF app_name \in DOMAIN snapshots[i].quotes
          THEN <<[timestamp |-> snapshots[i].timestamp,
                  rate |-> snapshots[i].quotes[app_name]]>>
          ELSE <<>>) \o ProjectFrom(snapshots, app_name, i + 1)

ProjectAll(snapshots, app_name) ==
    [i \in DOMAIN snapshots |->
        [timestamp |-> snapshots[i].timestamp,
         rate |-> IF app_name \in DOMAIN snapshots[i].quotes
                  THEN snapshots[i].quotes[app_name] ELSE 0]]
Project(snapshots, app_name) == ProjectFrom(snapshots, app_name, 1)

\* A tracker call as `ret` records it.
Call(op, args, status, exc, value, ninserts) ==
    [op |-> op, args |-> args, status |-> status, exc |-> exc, value |-> value,
     inserts |-> ninserts]
NoCall == Call("none", <<>>, "none", "", <<>>, 0)

\* The tracker call before the latest one, kept when the latest call reads what the
\* earlier one wrote or repeats it: save_snapshot then get_latest_snapshot, and
\* get_app_history then get_app_history with the same app_name and hours.
PrevFor(op, args) ==
    IF \/ (op = "get_latest_snapshot" /\ ret.op = "save_snapshot")
       \/ /\ op = "get_app_history"
          /\ ret.op = "get_app_history"
          /\ ret.args.app_name = args.app_name
          /\ ret.args.hours = args.hours
    THEN ret ELSE NoCall

\* _ensure_indexes: createIndexes() runs when the flag is unset, and the flag is set
\* after it returned.  idxOk tells whether createIndexes() succeeds; it is consulted
\* only when createIndexes() runs.
IndexesNeededAlways(created) == TRUE
IndexesNeeded(created) == ~created
IndexOutcomes == IF IndexesNeeded(indexes_created) THEN BOOLEAN ELSE {TRUE}
EnsureIndexesRaises(idxOk) == IndexesNeeded(indexes_created) /\ ~idxOk

\* What one _ensure_indexes() issues on the collection: createIndexes() when the flag
\* is unset, which completes or raises, and nothing when it is set.
EnsureOps(created, idxOk) ==
    IF IndexesNeeded(created)
    THEN <<IF idxOk THEN "createIndexes" ELSE "createIndexes raised">>
    ELSE <<>>

\* The log of the collection after a tracker call that issued ops.
NoLog == [completed |-> 0, ops |-> <<>>]
LogAfter(log, ops) ==
    [completed |-> log.completed
                     + Cardinality({k \in DOMAIN ops : ops[k] = "createIndexes"}),
     ops |-> ops]

\* The module's tracker and its connection.  tracker is the instance `_tracker` holds
\* (0 is None) and trackers the number of QuoteTracker() calls made; client, db and
\* collection are the instance's _client, _db and _collection, and clients is the
\* number of MongoClient(...) calls made.
NoConn ==
    [tracker |-> 0, trackers |-> 0, client |-> None, clients |-> 0, db |-> None,
     collection |-> None]

\* `if _tracker is None: _tracker = QuoteTracker()`; __init__ sets _client, _db and
\* _collection to None.
TrackerNeeded(tracker) == tracker = 0
get_tracker(c) ==
    IF TrackerNeeded(c.tracker)
    THEN [c EXCEPT !.tracker = c.trackers + 1, !.trackers = @ + 1,
                   !.client = None, !.db = None, !.collection = None]
    ELSE c

\* The `client` property: `if self._client is None:
\* self._client = MongoClient(settings.MONGO_URI)`.
ClientNeededAlways(held) == TRUE
ClientNeeded(held) == held = None
MongoClient(uri, n) == [uri |-> uri, id |-> n]
tracker_client(c) ==
    IF ClientNeeded(c.client)
    THEN [c EXCEPT !.client = Some(MongoClient("settings.MONGO_URI", c.clients + 1)),
                   !.clients = @ + 1]
    ELSE c

\* The `db` property: `if self._db is None: self._db = self.client[settings.DB_NAME]`.
tracker_db(c) ==
    IF c.db = None
    THEN LET c1 == tracker_client(c)
         IN  [c1 EXCEPT !.db = Some([client |-> c1.client[1], name |-> "settings.DB_NAME"])]
    ELSE c

\* The `collection` property: `if self._collection is None:
\* self._collection = self.db.snapshots`.
tracker_collection(c) ==
    IF c.collection = None
    THEN LET c1 == tracker_db(c)
         IN  [c1 EXCEPT !.collection = Some([db |-> c1.db[1], name |-> "snapshots"])]
    ELSE c

\* The tracker after a call: the flag it leaves, the operations it issued, and the
\* collection it reached them through (`tracker.<method>` goes through
\* _TrackerProxy.__getattr__, hence get_tracker()).
TrackerAfterFlagSet(created, ops) ==
    /\ indexes_created' = TRUE
    /\ coll_log' = LogAfter(coll_log, ops)
    /\ conn' = tracker_collection(get_tracker(conn))
TrackerAfter(created, ops) ==
    /\ indexes_created' = created
    /\ coll_log' = LogAfter(coll_log, ops)
    /\ conn' = tracker_collection(get_tracker(conn))

\* save_snapshot(api_data).  ins is what insert_one does: "ok", "error" (it raises
\* and nothing is written) or "applied_error" (the write is applied and the reply is
\* lost, so it raises).
save_snapshot(api_data, idxOk, ins) ==
    LET quotes == ExtractQuotes(api_data)
        doc == NewDoc(store, quotes, now)
        op == "save_snapshot"
    IN  /\ prev' = PrevFor(op, api_data)
        /\ IF EnsureIndexesRaises(idxOk)
           THEN /\ ret' = Call(op, api_data, "raise", "PyMongoError", <<>>, 0)
                /\ TrackerAfter(indexes_created, EnsureOps(indexes_created, idxOk))
                /\ UNCHANGED store
           ELSE /\ IF NoQuotes(quotes)
                   THEN /\ ret' = Call(op, api_data, "raise", "ValueError", <<>>, 0)
                        /\ TrackerAfter(TRUE, EnsureOps(indexes_created, idxOk))
                        /\ UNCHANGED store
                   ELSE /\ Len(store) < MaxDocs
                        /\ TrackerAfter(TRUE, EnsureOps(indexes_created, idxOk)
                                                 \o <<"insert_one">>)
                        /\ store' = IF ins = "error" THEN store ELSE InsertOne(store, doc)
                        /\ ret' = IF ins = "ok"
                                  THEN Call(op, api_data, "ok", "", doc.id, 1)
                                  ELSE Call(op, api_data, "raise", "PyMongoError", <<>>, 1)

InsertOutcomes == {"ok", "error", "applied_error"}

\* A direct call of tracker.save_snapshot.
SaveSnapshot ==
    /\ \E api_data \in Payloads, idxOk \in IndexOutcomes, ins \in InsertOutcomes :
          save_snapshot(api_data, idxOk, ins)
    /\ UNCHANGED <<now, retryVars, schedVars, cycleVars, webVars>>

\* What one tracker call does: the call as `ret` records it, and the index flag it
\* leaves.
Outcome(call, created, ops) == [call |-> call, created |-> created, ops |-> ops]

\* get_latest_snapshot() over collection coll: createIndexes() may fail when it runs,
\* find_one may fail, or the newest document comes back without its _id.
get_latest_snapshot(coll, created) ==
    LET op == "get_latest_snapshot"
        raised == Call(op, <<>>, "raise", "PyMongoError", <<>>, 0)
        ops == EnsureOps(created, TRUE) \o <<"find_one">>
    IN  (IF IndexesNeeded(created)
         THEN {Outcome(raised, created, EnsureOps(created, FALSE))} ELSE {})
        \cup {Outcome(raised, TRUE, ops)}
        \cup {Outcome(Call(op, <<>>, "ok", "",
                           IF doc = None THEN None ELSE Some(StripId(doc[1])), 0),
                      TRUE, ops) :
                doc \in FindOne(coll)}

\* get_snapshots_since(since)
get_snapshots_since(coll, created, since) ==
    LET op == "get_snapshots_since"
        args == [since |-> since]
        raised == Call(op, args, "raise", "PyMongoError", <<>>, 0)
        ops == EnsureOps(created, TRUE) \o <<"find">>
    IN  (IF IndexesNeeded(created)
         THEN {Outcome(raised, created, EnsureOps(created, FALSE))} ELSE {})
        \cup {Outcome(raised, TRUE, ops)}
        \cup {Outcome(Call(op, args, "ok", "",
                           [i \in DOMAIN docs |-> StripId(docs[i])], 0), TRUE, ops) :
                docs \in Find(coll, since)}

\* get_app_history(app_name, hours) at clock reading t: the window starts at t less
\* `hours`.
get_app_history(coll, created, app_name, hours, t) ==
    LET op == "get_app_history"
        args == [app_name |-> app_name, hours |-> hours, now |-> t]
        raised == Call(op, args, "raise", "PyMongoError", <<>>, 0)
        first == EnsureOps(created, TRUE)
        ops == first \o EnsureOps(TRUE, TRUE) \o <<"find">>
    IN  (IF IndexesNeeded(created)
         THEN {Outcome(raised, created, EnsureOps(created, FALSE))} ELSE {})
        \cup (IF IndexesNeeded(TRUE)
              THEN {Outcome(raised, TRUE, first \o EnsureOps(TRUE, FALSE))} ELSE {})
        \cup {Outcome(raised, TRUE, ops)}
        \cup {Outcome(Call(op, args, "ok", "",
                           Project([i \in DOMAIN docs |-> StripId(docs[i])], app_name),
                           0), TRUE, ops) :
                docs \in Find(coll, SinceOf(t, hours))}

\* get_mongo_ping_time(): db.command("ping"), no index check; it raises or returns the
\* round trip in milliseconds.
PingTimes == {5}
get_mongo_ping_time(created) ==
    LET op == "get_mongo_ping_time" IN
    {Outcome(Call(op, <<>>, "raise", "PyMongoError", <<>>, 0), created, <<>>)}
    \cup {Outcome(Call(op, <<>>, "ok", "", Some(ms), 0), created, <<>>) : ms \in PingTimes}

\* get_latest_snapshot()
GetLatestSnapshot ==
    /\ \E o \in get_latest_snapshot(store, indexes_created) :
          /\ prev' = PrevFor(o.call.op, o.call.args)
          /\ ret' = o.call
          /\ TrackerAfter(o.created, o.ops)
    /\ UNCHANGED <<store, now, retryVars, schedVars, cycleVars, webVars>>

\* get_snapshots_since(since)
GetSnapshotsSince ==
    /\ \E since \in 0..MaxTime :
         \E o \in get_snapshots_since(store, indexes_created, since) :
          /\ prev' = PrevFor(o.call.op, o.call.args)
          /\ ret' = o.call
          /\ TrackerAfter(o.created, o.ops)
    /\ UNCHANGED <<store, now, retryVars, schedVars, cycleVars, webVars>>

\* get_app_history(app_name, hours)
GetAppHistory ==
    /\ \E app_name \in QueryApps, hours \in 1..MaxHours :
         \E o \in get_app_history(store, indexes_created, app_name, hours, now) :
          /\ prev' = PrevFor(o.call.op, o.call.args)
          /\ ret' = o.call
          /\ TrackerAfter(o.created, o.ops)
    /\ UNCHANGED <<store, now, retryVars, schedVars, cycleVars, webVars>>

\* get_mongo_ping_time()
GetMongoPingTime ==
    /\ \E o \in get_mongo_ping_time(indexes_created) :
          /\ prev' = PrevFor(o.call.op, o.call.args)
          /\ ret' = o.call
    /\ conn' = tracker_db(get_tracker(conn))
    /\ UNCHANGED <<store, indexes_created, coll_log, now, retryVars, schedVars, cycleVars, webVars>>

\* The clock advances.
Tick ==
    /\ now < MaxTime
    /\ now' = now + 1
    /\ UNCHANGED <<store, indexes_created, coll_log, conn, ret, prev, retryVars, schedVars, cycleVars, webVars>>

\* get_tracker()
GetTracker ==
    /\ conn' = get_tracker(conn)
    /\ conn' # conn
    /\ UNCHANGED <<store, indexes_created, coll_log, now, ret, prev>>
    /\ UNCHANGED <<retryVars, schedVars, cycleVars, webVars>>

\* tracker.client, tracker.db or tracker.collection is read.
AccessProperty ==
    /\ \E property \in {"client", "db", "collection"} :
         LET c == get_tracker(conn) IN
         conn' = CASE property = "client"     -> tracker_client(c)
                   [] property = "db"         -> tracker_db(c)
                   [] property = "collection" -> tracker_collection(c)
    /\ conn' # conn
    /\ UNCHANGED <<store, indexes_created, coll_log, now, ret, prev>>
    /\ UNCHANGED <<retryVars, schedVars, cycleVars, webVars>>

(***************************************************************************)
(* The collection cycle: collect_quotes_background, fetch_and_save_quotes, *)
(* _fetch_from_api and _save_to_database, each with its retry wrapper.     *)
(***************************************************************************)
\* What requests.get / raise_for_status may raise on one call.
FetchFailures == {"Timeout", "ConnectionError", "ConnectTimeout", "HTTPError"}

\* No payload parsed yet.
NoData == <<>>

NoCycle == [status |-> "none", exc |-> ""]

\* The except clauses of fetch_and_save_quotes, in their order.
MapFetchFailure(cls) ==
    IF IsInstance(cls, {"Timeout"}) THEN "QuoteAPITimeoutError"
    ELSE IF IsInstance(cls, {"ConnectionError"}) THEN "QuoteAPIConnectionError"
    ELSE IF IsInstance(cls, {"RequestException"}) THEN "QuoteAPIConnectionError"
    ELSE cls

\* What one invocation of fetch_and_save_quotes did: the value it returned, or the
\* exception it raised (class, message, details) and the exception it was made from.
FsqReturned(value) ==
    [status |-> "ok", value |-> value, cls |-> "", message |-> <<>>, details |-> <<>>,
     cause |-> ""]
FsqRaised(cls, message, details, cause) ==
    [status |-> "raise", value |-> <<>>, cls |-> cls, message |-> message,
     details |-> details, cause |-> cause]
NoFsq == [status |-> "none", value |-> <<>>, cls |-> "", message |-> <<>>,
          details |-> <<>>, cause |-> ""]

\* `requests.get(settings.QUOTES_API_URL, timeout=30)`
RequestTimeout == 30

\* The exception an except clause of fetch_and_save_quotes raises for exception cls
\* (the last clause re-raises it).
MappedFailureConnectionFirst(cls) ==
    IF IsInstance(cls, {"ConnectionError"})
    THEN FsqRaised("QuoteAPIConnectionError", <<"Failed to connect to API">>,
                   [url |-> "QUOTES_API_URL"], cls)
    ELSE IF IsInstance(cls, {"Timeout"})
    THEN FsqRaised("QuoteAPITimeoutError", <<"API request timed out">>,
                   [timeout_seconds |-> RequestTimeout], cls)
    ELSE IF IsInstance(cls, {"RequestException"})
    THEN FsqRaised("QuoteAPIConnectionError", <<"API request failed: ", cls>>,
                   [url |-> "QUOTES_API_URL"], cls)
    ELSE FsqRaised(cls, <<cls>>, <<>>, cls)
MappedFailure(cls) ==
    IF IsInstance(cls, {"Timeout"})
    THEN FsqRaised("QuoteAPITimeoutError", <<"API request timed out">>,
                   [timeout_seconds |-> RequestTimeout], cls)
    ELSE IF IsInstance(cls, {"ConnectionError"})
    THEN FsqRaised("QuoteAPIConnectionError", <<"Failed to connect to API">>,
                   [url |-> "QUOTES_API_URL"], cls)
    ELSE IF IsInstance(cls, {"RequestException"})
    THEN FsqRaised("QuoteAPIConnectionError", <<"API request failed: ", cls>>,
                   [url |-> "QUOTES_API_URL"], cls)
    ELSE FsqRaised(cls, <<cls>>, <<>>, cls)

\* A piece of the response body: its first `len` characters.  text[:k] keeps at most
\* k of them.
PreviewLength == 100
BodyLengths == {0, 1, PreviewLength, PreviewLength + 1}
BodyText(len) == [of |-> "response.text", len |-> len]
SliceUncut(text, k) == text
Slice(text, k) == [text EXCEPT !.len = Min(@, k)]

\* QuoteDataParsingError("Invalid JSON response", response.text[:100]):
\* details = {"response_preview": str(response_data)[:100] if response_data else None}
QuoteDataParsingError(response_data) ==
    FsqRaised("QuoteDataParsingError", <<"Invalid JSON response">>,
              [response_preview |-> IF response_data.len # 0
                                    THEN Some(Slice(response_data, PreviewLength))
                                    ELSE None],
              "ValueError")

\* The calls counted during a cycle.
NoCount == [fetches |-> 0, requests |-> 0, saves |-> 0, added |-> 0]

\* fetch_and_save_quotes raised exc inside collect_quotes_background: the except
\* clause of the background wrapper.
AttemptFailed(cls) ==
    IF IsRetryable(cls, BackgroundExceptions)
       /\ ~IsFinalAttempt(c_bg_attempt, BACKGROUND_RETRY.max_attempts)
    THEN /\ c_pc' = "bg_sleep"
         /\ UNCHANGED c_result
    ELSE /\ c_pc' = "idle"
         /\ c_result' = [status |-> "raise", exc |-> cls]
FsqRaises(exc) ==
    /\ c_fsq' = exc
    /\ AttemptFailed(exc.cls)

\* The scheduler starts collect_quotes_background (max_instances = 1).
StartCycle ==
    /\ c_pc = "idle"
    /\ c_pc' = "fetch"
    /\ c_bg_attempt' = RangeStart(c_bg_attempt)
    /\ c_net_attempt' = RangeStart(c_net_attempt)
    /\ c_db_attempt' = RangeStart(c_db_attempt)
    /\ c_data' = NoData
    /\ c_result' = NoCycle
    /\ c_fsq' = NoFsq
    /\ c_count' = NoCount
    /\ UNCHANGED c_prev
    /\ UNCHANGED <<storeVars, retryVars, schedVars, webVars>>

\* One call of requests.get inside _fetch_from_api's wrapper, and response.json().
FetchFromApi ==
    /\ c_pc = "fetch"
    /\ c_count' = [c_count EXCEPT !.fetches = @ + 1, !.requests = @ + 1]
    /\ \/ \E data \in Payloads :
            /\ c_data' = data
            /\ c_pc' = "save"
            /\ UNCHANGED <<c_result, c_fsq>>
       \/ \E len \in BodyLengths :
            /\ FsqRaises(QuoteDataParsingError(Slice(BodyText(len), PreviewLength)))
            /\ UNCHANGED c_data
       \/ \E cls \in FetchFailures :
            /\ IF IsRetryable(cls, NetworkExceptions)
                  /\ ~IsFinalAttempt(c_net_attempt, NETWORK_RETRY.max_attempts)
               THEN /\ c_pc' = "net_sleep"
                    /\ UNCHANGED <<c_result, c_fsq>>
               ELSE FsqRaises(MappedFailure(cls))
            /\ UNCHANGED c_data
    /\ UNCHANGED <<c_bg_attempt, c_net_attempt, c_db_attempt, c_prev>>
    /\ UNCHANGED <<storeVars, retryVars, schedVars, webVars>>

\* time.sleep(delay) of _fetch_from_api's wrapper ends.
NetWake ==
    /\ c_pc = "net_sleep"
    /\ c_net_attempt' = c_net_attempt + 1
    /\ c_pc' = "fetch"
    /\ UNCHANGED <<c_bg_attempt, c_db_attempt, c_data, c_result, c_fsq, c_count, c_prev>>
    /\ UNCHANGED <<storeVars, retryVars, schedVars, webVars>>

\* One call of tracker.save_snapshot inside _save_to_database's wrapper.
SaveToDatabase ==
    /\ c_pc = "save"
    /\ \E idxOk \in IndexOutcomes, ins \in InsertOutcomes : save_snapshot(c_data, idxOk, ins)
    /\ c_count' = [c_count EXCEPT !.saves = @ + 1,
                                  !.added = @ + Len(store') - Len(store)]
    /\ IF ret'.status = "ok"
       THEN /\ c_pc' = "idle"
            /\ c_result' = [status |-> "ok", exc |-> ""]
            /\ c_fsq' = FsqReturned(ret'.value)
       ELSE IF IsRetryable(ret'.exc, DatabaseExceptions)
               /\ ~IsFinalAttempt(c_db_attempt, DATABASE_RETRY.max_attempts)
       THEN /\ c_pc' = "db_sleep"
            /\ UNCHANGED <<c_result, c_fsq>>
       ELSE FsqRaises(MappedFailure(ret'.exc))
    /\ UNCHANGED <<c_bg_attempt, c_net_attempt, c_db_attempt, c_data, c_prev>>
    /\ UNCHANGED <<now, retryVars, schedVars, webVars>>

\* asyncio.sleep(delay) of _save_to_database's wrapper ends.
DbWake ==
    /\ c_pc = "db_sleep"
    /\ c_db_attempt' = c_db_attempt + 1
    /\ c_pc' = "save"
    /\ UNCHANGED <<c_bg_attempt, c_net_attempt, c_data, c_result, c_fsq, c_count, c_prev>>
    /\ UNCHANGED <<storeVars, retryVars, schedVars, webVars>>

\* asyncio.sleep(delay) of collect_quotes_background's wrapper ends: the next
\* attempt calls fetch_and_save_quotes afresh.
BgWake ==
    /\ c_pc = "bg_sleep"
    /\ c_bg_attempt' = c_bg_attempt + 1
    /\ c_net_attempt' = RangeStart(c_net_attempt)
    /\ c_db_attempt' = RangeStart(c_db_attempt)
    /\ c_pc' = "fetch"
    /\ c_fsq' = NoFsq
    /\ c_count' = [c_count EXCEPT !.fetches = 0]
    /\ UNCHANGED <<c_data, c_result, c_prev>>
    /\ UNCHANGED <<storeVars, retryVars, schedVars, webVars>>

(***************************************************************************)
(* The scheduler: AsyncIOScheduler with one cron job,                      *)
(* collect_quotes_background, and the job_defaults coalesce, max_instances *)
(* and misfire_grace_time.                                                 *)
(***************************************************************************)
MaxSchedClock == 3

\* job_defaults of scheduler.configure; the grace time is in seconds.
COALESCE == TRUE
MAX_INSTANCES == 1
MISFIRE_GRACE_TIME == 60
SecondsPerMinute == 60

\* What one processing of the job did: "run" (the job was started), "max_instances"
\* (the job was already running, the run times are dropped) or "missed" (every run
\* time was too late).  runs is the number of times the job is run for it.
Wakeup(n, action, run_times, runs) ==
    [n |-> n, action |-> action, run_times |-> run_times, runs |-> runs]
NoWakeup == Wakeup(0, "none", <<>>, 0)

\* The running instances of the job: the cycle in progress.
Instances == IF c_pc = "idle" THEN 0 ELSE 1

\* The event loop runs the scheduler only while no coroutine is running: the cycle
\* is idle or suspended in an asyncio.sleep (requests.get and time.sleep of
\* _fetch_from_api block the loop).
\* `asyncio.iscoroutinefunction(func)` picks the wrapper: _fetch_from_api is a plain
\* `def`, _save_to_database and collect_quotes_background are `async def`.
WrapperKind(name) == IF name = "network" THEN "sync" ELSE "async"
CycleSleeps == {"net_sleep", "db_sleep", "bg_sleep"}
Sleeper(pc) ==
    CASE pc = "net_sleep" -> "network"
      [] pc = "db_sleep"  -> "database"
      [] pc = "bg_sleep"  -> "background"
LoopFree ==
    \/ c_pc = "idle"
    \/ c_pc \in CycleSleeps /\ SleepMode(WrapperKind(Sleeper(c_pc))) = "suspend"

\* coalesce: of the run times passed, only the latest is kept.
Coalesce(run_times) ==
    IF COALESCE /\ run_times # <<>> THEN <<run_times[Len(run_times)]>> ELSE run_times

\* max_instances: the job is not submitted while that many instances run.
MaxInstancesReachedNever(instances) == FALSE
MaxInstancesReached(instances) == instances >= MAX_INSTANCES

\* misfire_grace_time: a run time more than the grace time before now is missed.
Misfired(run_time, t) == (t - run_time) * SecondsPerMinute > MISFIRE_GRACE_TIME
InGrace(run_times, t) == SelectSeq(run_times, LAMBDA r : ~Misfired(r, t))

\* The cron trigger's next fire time is reached.
CronFire ==
    /\ s_fired < s_now
    /\ s_fired' = s_now
    /\ s_due' = Append(s_due, s_now)
    /\ UNCHANGED <<s_now, s_last>>
    /\ UNCHANGED <<retryVars, storeVars, cycleVars, webVars>>

\* A minute passes.
SchedClock ==
    /\ s_now < MaxSchedClock
    /\ s_now' = s_now + 1
    /\ UNCHANGED <<s_fired, s_due, s_last>>
    /\ UNCHANGED <<retryVars, storeVars, cycleVars, webVars>>

\* The scheduler processes the job when run times are due: it coalesces them, drops
\* them when the job is running, and otherwise starts collect_quotes_background for
\* the run times that are within the grace time.
SchedulerWakeup ==
    /\ LoopFree
    /\ s_due # <<>>
    /\ s_due' = <<>>
    /\ LET run_times == Coalesce(s_due)
           runs == InGrace(run_times, s_now)
       IN  IF MaxInstancesReached(Instances)
           THEN /\ s_last' = Wakeup(s_last.n + 1, "max_instances", run_times, 0)
                /\ UNCHANGED cycleVars
           ELSE IF runs = <<>>
           THEN /\ s_last' = Wakeup(s_last.n + 1, "missed", run_times, 0)
                /\ UNCHANGED cycleVars
           ELSE /\ s_last' = Wakeup(s_last.n + 1, "run", run_times, Len(runs))
                /\ c_pc' = "fetch"
                /\ c_bg_attempt' = RangeStart(c_bg_attempt)
                /\ c_net_attempt' = RangeStart(c_net_attempt)
                /\ c_db_attempt' = RangeStart(c_db_attempt)
                /\ c_data' = NoData
                /\ c_result' = NoCycle
                /\ c_fsq' = NoFsq
                /\ c_count' = NoCount
                /\ c_prev' = c_result
    /\ UNCHANGED <<s_now, s_fired>>
    /\ UNCHANGED <<retryVars, storeVars, webVars>>

(***************************************************************************)
(* Quote extraction applied to one Exchange.                               *)
(***************************************************************************)
MaxQuotes == 3

\* The quotes an Exchange may list: the tracked symbols, a symbol that differs from
\* "BRLARS" only in case, and two buy values to tell the quotes apart.
ExtractSymbols == {"BRLARS", "brlars", "BRLUSD", "BRLUSDT"}
ExtractBuys == {5, 6}
ExtractQuoteSet == {Q(s, b) : s \in ExtractSymbols, b \in ExtractBuys}
QuoteLists == UNION {[1..n -> ExtractQuoteSet] : n \in 0..MaxQuotes}

\* The first quote from position i on whose symbol is `symbol`.
RECURSIVE extract_symbol_from(_, _, _)
extract_symbol_from(quotes, symbol, i) ==
    IF i > Len(quotes) THEN None
    ELSE IF quotes[i].symbol = symbol THEN Some(quotes[i].buy)
    ELSE extract_symbol_from(quotes, symbol, i + 1)

\* extract_brlusd_rate: the BRLUSD quote is preferred to the BRLUSDT quote wherever
\* the two stand in the list; BRLUSDT is used when it is the only one.
RECURSIVE extract_brlusd_rate_in_order(_)
extract_brlusd_rate_in_order(exchange) ==
    IF exchange.quotes = <<>> THEN None
    ELSE IF Head(exchange.quotes).symbol \in {"BRLUSD", "BRLUSDT"}
         THEN Some(Head(exchange.quotes).buy)
         ELSE extract_brlusd_rate_in_order(E(Tail(exchange.quotes)))
extract_brlusd_rate(exchange) ==
    LET primary == extract_symbol_from(exchange.quotes, "BRLUSD", 1)
    IN  IF primary # None THEN primary
        ELSE extract_symbol_from(exchange.quotes, "BRLUSDT", 1)

\* tracker.extract_brlars_rate(exchange)
ExtractBrlarsRate ==
    /\ x_fn = "none"
    /\ x_fn' = "extract_brlars_rate"
    /\ x_rate' = extract_brlars_rate(x_exchange)
    /\ UNCHANGED <<x_exchange, retryVars, schedVars, storeVars, cycleVars, limiterVars, httpVars>>

\* tracker.extract_brlusd_rate(exchange)
ExtractBrlusdRate ==
    /\ x_fn = "none"
    /\ x_fn' = "extract_brlusd_rate"
    /\ x_rate' = extract_brlusd_rate(x_exchange)
    /\ UNCHANGED <<x_exchange, retryVars, schedVars, storeVars, cycleVars, limiterVars, httpVars>>

(***************************************************************************)
(* InMemoryRateLimiter: a sliding window of request timestamps per client  *)
(* key.  The limiter's clock is read in half windows.                      *)
(***************************************************************************)
MaxClock == 3
MaxCalls == 5

\* settings.RATE_LIMIT_REQUESTS and settings.RATE_LIMIT_WINDOW
RATE_LIMIT_REQUESTS == 100
RATE_LIMIT_WINDOW == 2

\* request.client.host, or "unknown" when the request has no client
ClientKeys == {"10.0.0.1", "unknown"}

Max(a, b) == IF a >= b THEN a ELSE b

\* `[req_time for req_time in self.requests[key] if req_time > window_start]`
InWindow(times, t) ==
    SelectSeq(times, LAMBDA req_time : req_time > t - RATE_LIMIT_WINDOW)

\* `if len(self.requests[key]) >= settings.RATE_LIMIT_REQUESTS: return False`
OverLimitLate(n) == n > RATE_LIMIT_REQUESTS
OverLimit(n) == n >= RATE_LIMIT_REQUESTS

\* (every key's list pruned instead of the key's own)
is_allowed_pruning_all(requests, key, t) ==
    LET known == IF key \in DOMAIN requests THEN requests ELSE requests @@ (key :> <<>>)
        pruned == [k \in DOMAIN known |-> InWindow(known[k], t)]
    IN  IF OverLimit(Len(pruned[key]))
        THEN [requests |-> pruned, allowed |-> FALSE]
        ELSE [requests |-> [pruned EXCEPT ![key] = Append(@, t)], allowed |-> TRUE]

\* (the timestamp appended before the limit is tested)
is_allowed_recording_denied(requests, key, t) ==
    LET known == IF key \in DOMAIN requests THEN requests ELSE requests @@ (key :> <<>>)
        recent == InWindow(known[key], t)
    IN  [requests |-> [known EXCEPT ![key] = Append(recent, t)],
         allowed |-> ~OverLimit(Len(recent))]

\* is_allowed(key) at clock reading t: the table it leaves and what it returns.
is_allowed(requests, key, t) ==
    LET known == IF key \in DOMAIN requests THEN requests ELSE requests @@ (key :> <<>>)
        recent == InWindow(known[key], t)
    IN  IF OverLimit(Len(recent))
        THEN [requests |-> [known EXCEPT ![key] = recent], allowed |-> FALSE]
        ELSE [requests |-> [known EXCEPT ![key] = Append(recent, t)], allowed |-> TRUE]

\* get_remaining_requests(key) at clock reading t
get_remaining_requests(requests, key, t) ==
    IF key \notin DOMAIN requests THEN RATE_LIMIT_REQUESTS
    ELSE Max(0, RATE_LIMIT_REQUESTS - Len(InWindow(requests[key], t)))

LimiterCall(op, key, value) == [op |-> op, key |-> key, value |-> value]
NoLimiterCall == LimiterCall("none", "", 0)
LogEntry(t, allowed) == [at |-> t, allowed |-> allowed]

\* The tables a run starts from: nothing recorded, or one client that has used all
\* but two of its requests at clock reading 0.
Stamps(n, t) == [i \in 1..n |-> t]
StartTables ==
    {<<>>} \cup {(key :> Stamps(RATE_LIMIT_REQUESTS - 2, 0)) : key \in ClientKeys}
FullTables == {(key :> Stamps(RATE_LIMIT_REQUESTS, 0)) : key \in ClientKeys}
StartLog(requests) ==
    [key \in ClientKeys |->
        IF key \in DOMAIN requests
        THEN [i \in 1..Len(requests[key]) |-> LogEntry(requests[key][i], TRUE)]
        ELSE <<>>]

\* rate_limiter.is_allowed(key)
IsAllowed ==
    /\ rl_calls < MaxCalls
    /\ \E key \in ClientKeys :
         LET r == is_allowed(rl_requests, key, rl_now) IN
         /\ rl_requests' = r.requests
         /\ rl_ret' = LimiterCall("is_allowed", key, r.allowed)
         /\ rl_log' = [rl_log EXCEPT ![key] = Append(@, LogEntry(rl_now, r.allowed))]
    /\ rl_calls' = rl_calls + 1
    /\ UNCHANGED <<rl_now, retryVars, schedVars, storeVars, cycleVars, extractVars, httpVars>>

\* rate_limiter.get_remaining_requests(key)
GetRemainingRequests ==
    /\ rl_calls < MaxCalls
    /\ \E key \in ClientKeys :
         rl_ret' = LimiterCall("get_remaining_requests", key,
                               get_remaining_requests(rl_requests, key, rl_now))
    /\ rl_calls' = rl_calls + 1
    /\ UNCHANGED <<rl_requests, rl_now, rl_log, retryVars, schedVars, storeVars, cycleVars,
                   extractVars, httpVars>>

\* The limiter's clock advances.
LimiterTick ==
    /\ rl_now < MaxClock
    /\ rl_now' = rl_now + 1
    /\ UNCHANGED <<rl_requests, rl_ret, rl_log, rl_calls, retryVars, schedVars, storeVars,
                   cycleVars, extractVars, httpVars>>

(***************************************************************************)
(* The application: a request passes ServerErrorMiddleware, the rate limit *)
(* middleware, CorrelationIDMiddleware and ExceptionMiddleware (with the   *)
(* registered exception handlers) before the router calls its endpoint.    *)
(* add_middleware puts the middleware added last outermost.                *)
(***************************************************************************)
\* settings.ENABLE_CORRELATION_IDS
ENABLE_CORRELATION_IDS == TRUE

\* `hours: int = Query(default=24, ge=1, le=720)`
DefaultHours == 24
MinHours == 1
MaxHoursParam == 720

\* The X-Request-ID header of a request (absent, empty or set) and the identifiers
\* str(uuid.uuid4()) may produce.
RequestIds == {None, Some(""), Some("req-1")}
GeneratedIds == {"uuid-1"}

\* The ?hours= parameter of a request: absent, or an integer.
HoursParams == {None} \cup {Some(h) : h \in {0, MinHours, MaxHoursParam, MaxHoursParam + 1}}

Request(route, app_name, hours, client, request_id) ==
    [route |-> route, app_name |-> app_name, hours |-> hours, client |-> client,
     request_id |-> request_id]
Requests(route) ==
    {Request(route, app_name, hours, client, request_id) :
        app_name \in (IF route = "apps" THEN QueryApps ELSE {""}),
        hours \in (IF route = "apps" THEN HoursParams ELSE {None}),
        client \in ClientKeys, request_id \in RequestIds}
NoRequest == Request("none", "", None, "", None)

\* request.url.path
Path(req) == IF req.route = "apps" THEN <<"apps", req.app_name>> ELSE <<req.route>>

\* A string, as the pieces it is put together from; str(x) of a string is the string,
\* and of a dict the text of the dict.
Text(parts) == [kind |-> "str", parts |-> parts]
Str(x) == IF x.kind = "str" THEN x ELSE [kind |-> "repr", of |-> x]

\* An exception: its class and the attributes the handlers read.
Raised(cls, message, details) ==
    [cls |-> cls, message |-> message, details |-> details, status_code |-> 0,
     detail |-> Text(<<>>)]
HTTPException(status_code, detail) ==
    [cls |-> "HTTPException", message |-> Text(<<>>), details |-> <<>>,
     status_code |-> status_code, detail |-> detail]
RequestValidationError(errors) ==
    [cls |-> "RequestValidationError", message |-> Text(<<>>), details |-> errors,
     status_code |-> 0, detail |-> Text(<<>>)]
NoException == Raised("", Text(<<>>), <<>>)

\* What a layer hands to the layer around it: a response, or a raised exception.
NoHeader == None
Respond(status, body) ==
    [kind |-> "response", status |-> status, body |-> body,
     request_id |-> NoHeader, ratelimit |-> NoHeader, exc |-> NoException]
Raise(exc) ==
    [kind |-> "raise", status |-> 0, body |-> [kind |-> "none"],
     request_id |-> NoHeader, ratelimit |-> NoHeader, exc |-> exc]

\* ErrorResponse(...).model_dump() and its two subclasses
ErrorResponse(error, message, details, path, request_id, t) ==
    [kind |-> "error", error |-> error, message |-> message, details |-> details,
     timestamp |-> t, request_id |-> request_id, path |-> path]
NotFoundErrorResponse(error, message, path, request_id, t) ==
    ErrorResponse(error, message, None, path, request_id, t)
        @@ [resource |-> None, resource_id |-> None]
ValidationErrorResponse(error, message, validation_errors, path, request_id, t) ==
    ErrorResponse(error, message, None, path, request_id, t)
        @@ [validation_errors |-> validation_errors]

\* type(exc).__mro__, as far as the classes of the model go
Mro(c) ==
    CASE c = "Exception"        -> <<c>>
      [] c = "QuoteServiceError" -> <<c, "Exception">>
      [] c \in ServiceClasses   -> <<c, "QuoteServiceError", "Exception">>
      [] c = "RequestException" -> <<c, "Exception">>
      [] c \in {"ConnectionError", "Timeout", "HTTPError"} ->
                                   <<c, "RequestException", "Exception">>
      [] c = "ReadTimeout"      -> <<c, "Timeout", "RequestException", "Exception">>
      [] c = "ConnectTimeout"   -> <<c, "ConnectionError", "Timeout",
                                     "RequestException", "Exception">>
      [] OTHER                  -> <<c, "Exception">>

\* The classes @app.exception_handler registers a handler for.
HandledClasses == ServiceClasses \cup {"RequestValidationError", "HTTPException"}

\* ExceptionMiddleware's lookup: the handler of the first class of the exception's
\* __mro__ that has one.
RECURSIVE LookupFrom(_, _)
LookupFrom(mro, i) ==
    IF i > Len(mro) THEN None
    ELSE IF mro[i] \in HandledClasses THEN Some(mro[i])
    ELSE LookupFrom(mro, i + 1)
LookupHandlerBase(cls) ==
    IF "QuoteServiceError" \in Ancestors(cls) THEN Some("QuoteServiceError")
    ELSE LookupFrom(Mro(cls), 1)
LookupHandler(cls) == LookupFrom(Mro(cls), 1)

\* The status and the message of the handlers of the QuoteServiceError family.
ServiceStatus(handler) ==
    CASE handler = "QuoteAPIConnectionError"  -> 503
      [] handler = "QuoteAPITimeoutError"     -> 408
      [] handler = "QuoteDatabaseError"       -> 503
      [] handler = "QuoteDataValidationError" -> 422
      [] handler = "QuoteDataParsingError"    -> 502
      [] OTHER                                -> 500
ServiceMessage(handler, exc) ==
    CASE handler = "QuoteAPIConnectionError" ->
            Text(<<"External API service is currently unavailable">>)
      [] handler = "QuoteAPITimeoutError" -> Text(<<"External API request timed out">>)
      [] handler = "QuoteDatabaseError" ->
            Text(<<"Database service is currently unavailable">>)
      [] handler = "QuoteDataValidationError" -> Text(<<"Data validation failed">>)
      [] handler = "QuoteDataParsingError" ->
            Text(<<"Failed to parse external API response">>)
      [] OTHER -> exc.message

\* http_exception_handler
http_exception_handler(path, exc, correlation_id, t) ==
    IF exc.status_code = 404
    THEN Respond(404, NotFoundErrorResponse("NotFound", Str(exc.detail), path,
                                            correlation_id, t))
    ELSE IF exc.status_code = 429
    THEN Respond(429, ErrorResponse("RateLimitExceeded", Str(exc.detail),
                                    Some([message |-> Str(exc.detail)]), path,
                                    correlation_id, t))
    ELSE Respond(exc.status_code, ErrorResponse("HTTPException", Str(exc.detail), None,
                                                path, correlation_id, t))

\* The registered handler `handler` answering exception exc.
HandlerResponse(handler, path, exc, correlation_id, t) ==
    IF handler = "HTTPException" THEN http_exception_handler(path, exc, correlation_id, t)
    ELSE IF handler = "RequestValidationError"
    THEN Respond(422, ValidationErrorResponse("RequestValidationError",
                                              Text(<<"Input validation failed">>),
                                              exc.details, path, correlation_id, t))
    ELSE Respond(ServiceStatus(handler),
                 ErrorResponse(exc.cls, ServiceMessage(handler, exc), Some(exc.details),
                               path, correlation_id, t))

\* ExceptionMiddleware: an exception of the router is answered by its handler when it
\* has one, and raised on otherwise.
ExceptionMiddleware(path, result, correlation_id, t) ==
    IF result.kind = "raise" /\ LookupHandler(result.exc.cls) # None
    THEN HandlerResponse(LookupHandler(result.exc.cls)[1], path, result.exc,
                         correlation_id, t)
    ELSE result

\* CorrelationIDMiddleware.dispatch: `request.headers.get("X-Request-ID") or
\* str(uuid.uuid4())`
CorrelationIdIgnoringHeader(req, new_id) == new_id
CorrelationId(req, new_id) ==
    IF req.request_id # None /\ req.request_id[1] # "" THEN req.request_id[1] ELSE new_id

\* get_correlation_id(request): request.state.correlation_id, which dispatch has set
\* when the middleware is enabled and has run.
get_correlation_id(req, new_id, dispatched) ==
    IF dispatched /\ ENABLE_CORRELATION_IDS THEN CorrelationId(req, new_id) ELSE "unknown"

\* CorrelationIDMiddleware.dispatch around `inner`: an exception is logged and raised
\* on; a response gets the X-Request-ID header.
CorrelationIDMiddleware(req, new_id, inner) ==
    IF ~ENABLE_CORRELATION_IDS \/ inner.kind = "raise" THEN inner
    ELSE [inner EXCEPT !.request_id = Some(CorrelationId(req, new_id))]

\* rate_limit_middleware around `inner`: a client over its limit gets HTTPException 429
\* raised and `inner` is not called; otherwise the response gets the X-RateLimit
\* headers.
RateLimitDetail(remaining) ==
    [kind |-> "dict", error |-> "RateLimitExceeded",
     message |-> Text(<<"Too many requests">>),
     limit |-> RATE_LIMIT_REQUESTS, window |-> RATE_LIMIT_WINDOW,
     remaining |-> remaining, retry_after |-> RATE_LIMIT_WINDOW]
rate_limit_middleware(allowed, remaining, inner) ==
    IF ~allowed THEN Raise(HTTPException(429, RateLimitDetail(remaining)))
    ELSE IF inner.kind = "raise" THEN inner
    ELSE [inner EXCEPT !.ratelimit = Some([limit |-> RATE_LIMIT_REQUESTS,
                                            remaining |-> remaining,
                                            window |-> RATE_LIMIT_WINDOW])]

\* ServerErrorMiddleware: an exception that reaches it is answered with a plain 500
\* (and raised to the server).
ServerErrorMiddleware(inner) ==
    IF inner.kind = "raise"
    THEN [Respond(500, [kind |-> "plain", text |-> "Internal Server Error"])
             EXCEPT !.exc = inner.exc]
    ELSE inner

\* The whole stack around what the router did with the request.
Serve(req, new_id, allowed, remaining, routed, t) ==
    ServerErrorMiddleware(
        rate_limit_middleware(allowed, remaining,
            CorrelationIDMiddleware(req, new_id,
                ExceptionMiddleware(Path(req), routed,
                                    get_correlation_id(req, new_id, TRUE), t))))

\* The requests one run follows.
MaxRequests == 2

\* The collections a run of requests starts over: empty, one snapshot, or two snapshots
\* saved at the same clock reading.
SavedAt(coll, api_data, t) == InsertOne(coll, NewDoc(coll, ExtractQuotes(api_data), t))
StartStores ==
    {<<>>, SavedAt(<<>>, PayloadBoth, 0), SavedAt(SavedAt(<<>>, PayloadOne, 0), PayloadBoth, 0)}

\* What the router did with a request: whether the endpoint function ran, the tracker
\* calls it made, and the exception the route raised (NoException when it returned).
Routed(endpoint, calls, result) ==
    [endpoint |-> endpoint, calls |-> calls,
     exc |-> IF result.kind = "raise" THEN result.exc ELSE NoException]
NotRouted == [endpoint |-> FALSE, calls |-> <<>>, exc |-> NoException]
NoResponse == Respond(0, [kind |-> "none"])

\* A tracker call that raised, as the exception the endpoint sees.
TrackerError(call) == Raised(call.exc, Text(<<"tracker call failed">>), <<>>)

\* `[AppRate(app_name=k, rate=v) for k, v in latest.quotes.items()]`
AppRates(quotes) ==
    LET order == CHOOSE s \in [1..Cardinality(DOMAIN quotes) -> DOMAIN quotes] :
                     \A i, j \in DOMAIN s : i # j => s[i] # s[j]
    IN  [i \in DOMAIN order |-> [app_name |-> order[i], rate |-> quotes[order[i]]]]

\* get_latest(), given what tracker.get_latest_snapshot() did
get_latest_without_404(call) ==
    IF call.status = "raise" THEN Raise(TrackerError(call))
    ELSE Respond(200, [kind |-> "SnapshotResponse", id |-> "latest",
                       timestamp |-> IF call.value = None THEN None
                                     ELSE Some(call.value[1].timestamp),
                       quotes |-> IF call.value = None THEN <<>>
                                  ELSE AppRates(call.value[1].quotes),
                       total_apps |-> IF call.value = None THEN 0
                                      ELSE Cardinality(DOMAIN call.value[1].quotes)])
get_latest(call) ==
    IF call.status = "raise" THEN Raise(TrackerError(call))
    ELSE IF call.value = None
    THEN Raise(HTTPException(404, Text(<<"No snapshots found">>)))
    ELSE Respond(200, [kind |-> "SnapshotResponse", id |-> "latest",
                       timestamp |-> call.value[1].timestamp,
                       quotes |-> AppRates(call.value[1].quotes),
                       total_apps |-> Cardinality(DOMAIN call.value[1].quotes)])

\* `hours: int = Query(default=24, ge=1, le=720)`
HoursOf(req) == IF req.hours = None THEN DefaultHours ELSE req.hours[1]
HoursValidUnchecked(hours) == TRUE
HoursValid(hours) == MinHours <= hours /\ hours <= MaxHoursParam
HoursError(req) ==
    RequestValidationError(<<[field |-> <<"query", "hours">>, value |-> HoursOf(req)]>>)

\* app_history(app_name, hours), given what tracker.get_app_history(...) did
app_history(req, call) ==
    IF call.status = "raise" THEN Raise(TrackerError(call))
    ELSE IF call.value = <<>>
    THEN Raise(HTTPException(404, Text(<<"No history found for app '", req.app_name, "'">>)))
    ELSE Respond(200, [kind |-> "AppHistoryResponse", app_name |-> req.app_name,
                       history |-> call.value, total_records |-> Len(call.value)])

\* health_check(), given what the two probes did: both are inside try blocks.
DbStatusUncaught(latest) == <<"connected">>
DbStatus(latest) ==
    IF latest.status = "ok" THEN <<"connected">>
    ELSE IF IsInstance(latest.exc, {"QuoteServiceError"}) THEN <<"service_error", latest.exc>>
    ELSE <<"error", latest.exc>>
health_check(latest, ping, t) ==
    LET db_status == DbStatus(latest)
        last_update == IF latest.status = "ok" /\ latest.value # None
                       THEN Some(latest.value[1].timestamp) ELSE None
        mongo_ping == IF ping.status = "ok" THEN ping.value ELSE None
    IN  Respond(200, [kind |-> "HealthCheckResponse",
                      status |-> IF db_status = <<"connected">> THEN "healthy"
                                 ELSE "unhealthy",
                      database |-> db_status,
                      last_update |-> last_update,
                      timestamp |-> t,
                      uptime |-> t,
                      mongo_ping |-> IF Truthy(mongo_ping) THEN <<mongo_ping[1], "ms">>
                                     ELSE <<"unknown">>])

\* rate_limit_middleware's calls of the limiter for a request of `client`: is_allowed,
\* then get_remaining_requests (before the raise, or after the response came back).
\* lim is what is_allowed did.
LimiterStep(client, lim) ==
    /\ rl_requests' = lim.requests
    /\ rl_log' = [rl_log EXCEPT ![client] = Append(@, LogEntry(rl_now, lim.allowed))]
    /\ rl_ret' = LimiterCall("get_remaining_requests", client,
                             get_remaining_requests(lim.requests, client, rl_now))
    /\ rl_calls' = rl_calls + 1

\* The request is answered: what the router did, and the response the stack makes of it.
Reply(req, new_id, lim, endpoint, calls, result) ==
    /\ h_req' = req
    /\ h_route' = IF lim.allowed THEN Routed(endpoint, calls, result) ELSE NotRouted
    /\ h_resp' = Serve(req, new_id, lim.allowed,
                       get_remaining_requests(lim.requests, req.client, rl_now),
                       result, now)

\* GET /latest
HttpGetLatest ==
    /\ LoopFree
    /\ rl_calls < MaxRequests
    /\ \E client \in ClientKeys :
       \E lim \in {is_allowed(rl_requests, client, rl_now)} :
       \E req \in {r \in Requests("latest") : r.client = client}, new_id \in GeneratedIds :
         /\ LimiterStep(client, lim)
         /\ IF ~lim.allowed
            THEN /\ Reply(req, new_id, lim, FALSE, <<>>, NoResponse)
                 /\ UNCHANGED <<ret, prev, indexes_created, coll_log, conn>>
            ELSE \E o \in get_latest_snapshot(store, indexes_created) :
                   /\ prev' = PrevFor(o.call.op, o.call.args)
                   /\ ret' = o.call
                   /\ TrackerAfter(o.created, o.ops)
                   /\ Reply(req, new_id, lim, TRUE, <<o.call>>, get_latest(o.call))
    /\ UNCHANGED <<store, now, rl_now, retryVars, schedVars, cycleVars, extractVars>>

\* GET /apps/{app_name}?hours=
HttpAppHistory ==
    /\ LoopFree
    /\ rl_calls < MaxRequests
    /\ \E client \in ClientKeys :
       \E lim \in {is_allowed(rl_requests, client, rl_now)} :
       \E req \in {r \in Requests("apps") : r.client = client}, new_id \in GeneratedIds :
         /\ LimiterStep(client, lim)
         /\ IF ~lim.allowed
            THEN /\ Reply(req, new_id, lim, FALSE, <<>>, NoResponse)
                 /\ UNCHANGED <<ret, prev, indexes_created, coll_log, conn>>
            ELSE IF ~HoursValid(HoursOf(req))
            THEN /\ Reply(req, new_id, lim, FALSE, <<>>, Raise(HoursError(req)))
                 /\ UNCHANGED <<ret, prev, indexes_created, coll_log, conn>>
            ELSE \E o \in get_app_history(store, indexes_created, req.app_name,
                                          HoursOf(req), now) :
                   /\ prev' = PrevFor(o.call.op, o.call.args)
                   /\ ret' = o.call
                   /\ TrackerAfter(o.created, o.ops)
                   /\ Reply(req, new_id, lim, TRUE, <<o.call>>, app_history(req, o.call))
    /\ UNCHANGED <<store, now, rl_now, retryVars, schedVars, cycleVars, extractVars>>

\* GET /health
HttpHealthCheck ==
    /\ LoopFree
    /\ rl_calls < MaxRequests
    /\ \E client \in ClientKeys :
       \E lim \in {is_allowed(rl_requests, client, rl_now)} :
       \E req \in {r \in Requests("health") : r.client = client}, new_id \in GeneratedIds :
         /\ LimiterStep(client, lim)
         /\ IF ~lim.allowed
            THEN /\ Reply(req, new_id, lim, FALSE, <<>>, NoResponse)
                 /\ UNCHANGED <<ret, prev, indexes_created, coll_log, conn>>
            ELSE \E latest \in get_latest_snapshot(store, indexes_created) :
                 \E ping \in get_mongo_ping_time(latest.created) :
                   /\ prev' = NoCall
                   /\ ret' = ping.call
                   /\ TrackerAfter(ping.created, latest.ops \o ping.ops)
                   /\ Reply(req, new_id, lim, TRUE, <<latest.call, ping.call>>,
                            health_check(latest.call, ping.call, now))
    /\ UNCHANGED <<store, now, rl_now, retryVars, schedVars, cycleVars, extractVars>>

\* A request (to /latest) whose endpoint raises: the failures a route may raise are the
\* service's typed failures and two untyped ones.
RouteFailureClasses == ServiceClasses \cup {"PyMongoError", "ValueError"}
RouteFailures ==
    {Raised(cls, Text(<<"failure in the endpoint">>), details) :
        cls \in RouteFailureClasses, details \in {<<>>, [operation |-> "find"]}}
HttpRouteRaises ==
    /\ LoopFree
    /\ rl_calls < MaxRequests
    /\ \E client \in ClientKeys :
       \E lim \in {is_allowed(rl_requests, client, rl_now)} :
       \E req \in {r \in Requests("latest") : r.client = client}, new_id \in GeneratedIds,
          exc \in RouteFailures :
         /\ LimiterStep(client, lim)
         /\ Reply(req, new_id, lim, TRUE, <<>>, Raise(exc))
    /\ UNCHANGED <<storeVars, rl_now, retryVars, schedVars, cycleVars, extractVars>>

(***************************************************************************)
(* The specifications.                                                     *)
(***************************************************************************)
\* A wrapped function is called: the decorator's arguments and the wrapper are any of
\* the bounded ones; the tracker is freshly constructed and no cycle runs.
InitRetry ==
    /\ r_cfg \in CallSites
    /\ r_kind \in {"async", "sync"}
    /\ r_pc = "loop"
    /\ r_attempt = 0
    /\ r_hist = <<>>
    /\ r_last_exception = 0
    /\ r_result = NoResult
    /\ r_delays = <<>>
    /\ r_sleeps = <<>>
    /\ r_log = <<>>
    /\ store = <<>>
    /\ indexes_created = FALSE
    /\ coll_log = NoLog
    /\ conn = NoConn
    /\ now = 0
    /\ ret = NoCall
    /\ prev = NoCall
    /\ c_pc = "idle"
    /\ c_bg_attempt = 0
    /\ c_net_attempt = 0
    /\ c_db_attempt = 0
    /\ c_data = NoData
    /\ c_result = NoCycle
    /\ c_fsq = NoFsq
    /\ c_count = NoCount
    /\ c_prev = NoCycle
    /\ s_now = 0
    /\ s_fired = -1
    /\ s_due = <<>>
    /\ s_last = NoWakeup
    /\ x_fn = "none"
    /\ x_exchange = E(<<>>)
    /\ x_rate = None
    /\ rl_requests = <<>>
    /\ rl_now = 0
    /\ rl_ret = NoLimiterCall
    /\ rl_log = StartLog(<<>>)
    /\ rl_calls = 0
    /\ h_req = NoRequest
    /\ h_route = NotRouted
    /\ h_resp = NoResponse

\* One run of a wrapped function.
SpecRetry == InitRetry /\ [][NextRetry]_vars

\* A freshly constructed tracker over an empty collection; no cycle runs and the
\* retry run is at rest.
Init ==
    /\ r_cfg = [name |-> "network"] @@ NETWORK_RETRY @@ [exceptions |-> NetworkExceptions]
    /\ r_kind = "sync"
    /\ r_pc = "loop"
    /\ r_attempt = 0
    /\ r_hist = <<>>
    /\ r_last_exception = 0
    /\ r_result = NoResult
    /\ r_delays = <<>>
    /\ r_sleeps = <<>>
    /\ r_log = <<>>
    /\ store = <<>>
    /\ indexes_created = FALSE
    /\ coll_log = NoLog
    /\ conn = NoConn
    /\ now = 0
    /\ ret = NoCall
    /\ prev = NoCall
    /\ c_pc = "idle"
    /\ c_bg_attempt = 0
    /\ c_net_attempt = 0
    /\ c_db_attempt = 0
    /\ c_data = NoData
    /\ c_result = NoCycle
    /\ c_fsq = NoFsq
    /\ c_count = NoCount
    /\ c_prev = NoCycle
    /\ s_now = 0
    /\ s_fired = -1
    /\ s_due = <<>>
    /\ s_last = NoWakeup
    /\ x_fn = "none"
    /\ x_exchange = E(<<>>)
    /\ x_rate = None
    /\ rl_requests = <<>>
    /\ rl_now = 0
    /\ rl_ret = NoLimiterCall
    /\ rl_log = StartLog(<<>>)
    /\ rl_calls = 0
    /\ h_req = NoRequest
    /\ h_route = NotRouted
    /\ h_resp = NoResponse

\* An extraction is applied to an Exchange: any list of at most MaxQuotes quotes.
InitExtract ==
    /\ r_cfg = [name |-> "network"] @@ NETWORK_RETRY @@ [exceptions |-> NetworkExceptions]
    /\ r_kind = "sync"
    /\ r_pc = "loop"
    /\ r_attempt = 0
    /\ r_hist = <<>>
    /\ r_last_exception = 0
    /\ r_result = NoResult
    /\ r_delays = <<>>
    /\ r_sleeps = <<>>
    /\ r_log = <<>>
    /\ store = <<>>
    /\ indexes_created = FALSE
    /\ coll_log = NoLog
    /\ conn = NoConn
    /\ now = 0
    /\ ret = NoCall
    /\ prev = NoCall
    /\ c_pc = "idle"
    /\ c_bg_attempt = 0
    /\ c_net_attempt = 0
    /\ c_db_attempt = 0
    /\ c_data = NoData
    /\ c_result = NoCycle
    /\ c_fsq = NoFsq
    /\ c_count = NoCount
    /\ c_prev = NoCycle
    /\ s_now = 0
    /\ s_fired = -1
    /\ s_due = <<>>
    /\ s_last = NoWakeup
    /\ x_fn = "none"
    /\ x_exchange \in {E(quotes) : quotes \in QuoteLists}
    /\ x_rate = None
    /\ rl_requests = <<>>
    /\ rl_now = 0
    /\ rl_ret = NoLimiterCall
    /\ rl_log = StartLog(<<>>)
    /\ rl_calls = 0
    /\ h_req = NoRequest
    /\ h_route = NotRouted
    /\ h_resp = NoResponse

NextExtract == ExtractBrlarsRate \/ ExtractBrlusdRate
SpecExtract == InitExtract /\ [][NextExtract]_vars

\* The limiter is called for the clients, over a table that is empty or nearly used up.
InitLimiter ==
    /\ r_cfg = [name |-> "network"] @@ NETWORK_RETRY @@ [exceptions |-> NetworkExceptions]
    /\ r_kind = "sync"
    /\ r_pc = "loop"
    /\ r_attempt = 0
    /\ r_hist = <<>>
    /\ r_last_exception = 0
    /\ r_result = NoResult
    /\ r_delays = <<>>
    /\ r_sleeps = <<>>
    /\ r_log = <<>>
    /\ store = <<>>
    /\ indexes_created = FALSE
    /\ coll_log = NoLog
    /\ conn = NoConn
    /\ now = 0
    /\ ret = NoCall
    /\ prev = NoCall
    /\ c_pc = "idle"
    /\ c_bg_attempt = 0
    /\ c_net_attempt = 0
    /\ c_db_attempt = 0
    /\ c_data = NoData
    /\ c_result = NoCycle
    /\ c_fsq = NoFsq
    /\ c_count = NoCount
    /\ c_prev = NoCycle
    /\ s_now = 0
    /\ s_fired = -1
    /\ s_due = <<>>
    /\ s_last = NoWakeup
    /\ x_fn = "none"
    /\ x_exchange = E(<<>>)
    /\ x_rate = None
    /\ rl_requests \in StartTables
    /\ rl_now = 0
    /\ rl_ret = NoLimiterCall
    /\ rl_log = StartLog(rl_requests)
    /\ rl_calls = 0
    /\ h_req = NoRequest
    /\ h_route = NotRouted
    /\ h_resp = NoResponse

NextLimiter == IsAllowed \/ GetRemainingRequests \/ LimiterTick
SpecLimiter == InitLimiter /\ [][NextLimiter]_vars

\* The application serves requests: the collection holds the snapshots saved so far,
\* the tracker is freshly constructed (its index flag is unset), and the
\* limiter's table is empty or holds one client that has used up its requests at
\* clock reading 0.
InitHttp ==
    /\ r_cfg = [name |-> "network"] @@ NETWORK_RETRY @@ [exceptions |-> NetworkExceptions]
    /\ r_kind = "sync"
    /\ r_pc = "loop"
    /\ r_attempt = 0
    /\ r_hist = <<>>
    /\ r_last_exception = 0
    /\ r_result = NoResult
    /\ r_delays = <<>>
    /\ r_sleeps = <<>>
    /\ r_log = <<>>
    /\ store \in StartStores
    /\ indexes_created = FALSE
    /\ coll_log = NoLog
    /\ conn = NoConn
    /\ now = 0
    /\ ret = NoCall
    /\ prev = NoCall
    /\ c_pc = "idle"
    /\ c_bg_attempt = 0
    /\ c_net_attempt = 0
    /\ c_db_attempt = 0
    /\ c_data = NoData
    /\ c_result = NoCycle
    /\ c_fsq = NoFsq
    /\ c_count = NoCount
    /\ c_prev = NoCycle
    /\ s_now = 0
    /\ s_fired = -1
    /\ s_due = <<>>
    /\ s_last = NoWakeup
    /\ x_fn = "none"
    /\ x_exchange = E(<<>>)
    /\ x_rate = None
    /\ rl_requests \in {<<>>} \cup FullTables
    /\ rl_now = 0
    /\ rl_ret = NoLimiterCall
    /\ rl_log = StartLog(rl_requests)
    /\ rl_calls = 0
    /\ h_req = NoRequest
    /\ h_route = NotRouted
    /\ h_resp = NoResponse

\* Requests to the three endpoints.
NextHttp ==
    \/ HttpGetLatest
    \/ HttpAppHistory
    \/ HttpHealthCheck
SpecHttp == InitHttp /\ [][NextHttp]_vars

\* Requests whose endpoint raises, through the same stack.
NextHandlers == HttpRouteRaises
SpecHandlers == InitHttp /\ [][NextHandlers]_vars

\* The tracker's operations, called directly, and the clock.
Next ==
    \/ SaveSnapshot
    \/ GetLatestSnapshot
    \/ GetSnapshotsSince
    \/ GetAppHistory
    \/ GetMongoPingTime
    \/ Tick
Spec == Init /\ [][Next]_vars

\* The collection cycles and direct save_snapshot calls.
NextCycle ==
    \/ StartCycle
    \/ FetchFromApi
    \/ NetWake
    \/ SaveToDatabase
    \/ DbWake
    \/ BgWake
    \/ SaveSnapshot
SpecCycle == Init /\ [][NextCycle]_vars

\* The tracker's calls together with the reads of its connection properties.
NextTracker ==
    \/ GetTracker
    \/ AccessProperty
    \/ SaveSnapshot
    \/ GetLatestSnapshot
    \/ GetSnapshotsSince
    \/ GetAppHistory
    \/ GetMongoPingTime
    \/ Tick
SpecTracker == Init /\ [][NextTracker]_vars

\* The scheduler running the collection cycles.
NextSched ==
    \/ CronFire
    \/ SchedClock
    \/ SchedulerWakeup
    \/ FetchFromApi
    \/ NetWake
    \/ SaveToDatabase
    \/ DbWake
    \/ BgWake
SpecSched == Init /\ [][NextSched]_vars

(***************************************************************************)
(* The claims.                                                             *)
(***************************************************************************)
\* Every invocation in h raised an exception the wrapper's `exceptions` catch.
FailedRetryably(h) ==
    \A i \in DOMAIN h : h[i] # "ok" /\ IsInstance(h[i], r_cfg.exceptions)

Front(h) == SubSeq(h, 1, Len(h) - 1)

\* C1: with max_attempts >= 1, a function that raises retryable exceptions on its
\* first k < max_attempts calls and then succeeds makes the wrapper return that
\* call's value after exactly k+1 invocations; one that raises retryable exceptions
\* max_attempts times in a row makes it raise the last call's exception after
\* exactly max_attempts invocations (and it is never invoked more often, nor does
\* the wrapper give up earlier).
C1_RetryInvocationCount ==
    LET n == Len(r_hist)
        m == r_cfg.max_attempts
    IN  m >= 1 =>
          /\ n <= m
          /\ (n >= 1 /\ r_hist[n] = "ok" /\ FailedRetryably(Front(r_hist)))
                => (r_pc = "returned" /\ r_result.kind = "return" /\ r_result.id = n)
          /\ (FailedRetryably(r_hist) /\ n < m) => r_pc \in {"loop", "sleep"}
          /\ (FailedRetryably(r_hist) /\ n = m)
                => (r_pc = "raised" /\ r_result.kind = "raise" /\ r_result.id = m
                    /\ r_result.cls = r_hist[m])

\* C1's case: an async function failed retryably on all of max_attempts >= 2 calls.
C1_Witness ==
    /\ r_pc = "raised"
    /\ r_kind = "async"
    /\ r_cfg.max_attempts >= 2
    /\ Len(r_hist) = r_cfg.max_attempts
    /\ FailedRetryably(r_hist)
    /\ Len(r_sleeps) = r_cfg.max_attempts - 1

\* C2: an exception that is no instance of a class in `exceptions` leaves the
\* wrapper at once: it is the last invocation, the wrapper raises that very
\* exception, and no sleep follows it (the sleeps are those of the earlier failures).
C2_NonRetryablePropagates ==
    \A i \in DOMAIN r_hist :
        (r_hist[i] # "ok" /\ ~IsInstance(r_hist[i], r_cfg.exceptions)) =>
            /\ i = Len(r_hist)
            /\ r_pc = "raised"
            /\ r_result = [kind |-> "raise", id |-> i, cls |-> r_hist[i],
                           via |-> "propagate"]
            /\ Len(r_sleeps) = i - 1

\* C2's case: a non-retryable exception on a later call, with attempts remaining.
C2_Witness ==
    /\ r_pc = "raised"
    /\ r_result.via = "propagate"
    /\ Len(r_hist) >= 2
    /\ r_attempt + 1 < r_cfg.max_attempts

\* No provider of the payload has a BRLARS quote.
NoBrlarsRate(api_data) ==
    \A a \in DOMAIN api_data :
        \A i \in DOMAIN api_data[a].quotes : api_data[a].quotes[i].symbol # "BRLARS"

\* C3 as stated: save_snapshot on a payload without a BRLARS rate raises a
\* ValidationFailure (QuoteDataValidationError, the kind answered with 422) and
\* calls insert_one zero times.  (Stated for the calls whose index creation did
\* not fail.)
C3_Original ==
    (ret.op = "save_snapshot" /\ NoBrlarsRate(ret.args) /\ indexes_created) =>
        /\ ret.status = "raise"
        /\ IsInstance(ret.exc, {"QuoteDataValidationError"})
        /\ ret.inserts = 0

\* C3 as amended: save_snapshot on a payload without a BRLARS rate raises a plain
\* ValueError (or the index-creation failure, when createIndexes fails first),
\* calls insert_one zero times and leaves the collection as it was.
C3_NoBrlarsNoWrite ==
    [][ (ret'.op = "save_snapshot" /\ NoBrlarsRate(ret'.args)) =>
            /\ store' = store
            /\ ret'.inserts = 0
            /\ ret'.status = "raise"
            /\ \/ ret'.exc = "ValueError" /\ indexes_created'
               \/ ret'.exc = "PyMongoError" /\ ~indexes_created /\ ~indexes_created'
      ]_vars

\* C3's case: a payload without BRLARS was refused while the collection held a snapshot.
C3_Witness ==
    /\ ret.op = "save_snapshot"
    /\ NoBrlarsRate(ret.args)
    /\ ret.exc = "ValueError"
    /\ Len(store) >= 1

\* C4: every stored snapshot has a non-empty quotes mapping, whatever cycles and
\* save_snapshot calls ran, failed or were retried.
C4_StoredQuotesNonEmpty == \A d \in Range(store) : DOMAIN d.quotes # {}

\* C4's case: a cycle failed validation on both storage attempts, beside a stored snapshot.
C4_Witness ==
    /\ Len(store) >= 1
    /\ c_pc = "idle"
    /\ c_result = [status |-> "raise", exc |-> "ValueError"]
    /\ c_db_attempt = 1

IsPrefix(s, t) == Len(s) <= Len(t) /\ SubSeq(t, 1, Len(s)) = s

ReadOps == {"get_latest_snapshot", "get_snapshots_since", "get_app_history",
            "get_mongo_ping_time"}

LatestAfterSave ==
    /\ ret.op = "get_latest_snapshot"
    /\ ret.status = "ok"
    /\ prev.op = "save_snapshot"
    /\ prev.status = "ok"

\* The snapshot the save stored is what get_latest_snapshot returned, without _id.
ReturnsSaved ==
    /\ ret.value # None
    /\ ret.value[1].quotes = store[prev.value].quotes
    /\ DOMAIN ret.value[1] = {"timestamp", "quotes"}

\* C6 as stated: the get_latest_snapshot that follows a successful save_snapshot
\* returns the quotes just inserted and no _id.
C6_Original == LatestAfterSave => ReturnsSaved

\* C6 as amended: it does so when the saved snapshot's timestamp is greater than
\* that of every other stored snapshot; an older snapshot with the same timestamp
\* may be returned instead.
C6_LatestAfterSave ==
    (/\ LatestAfterSave
     /\ \A d \in Range(store) :
           d.id # prev.value => d.timestamp < store[prev.value].timestamp)
    => ReturnsSaved

\* C6's case: the saved snapshot is the newest of two with different quotes.
C6_Witness ==
    /\ LatestAfterSave
    /\ Len(store) = 2
    /\ prev.value = 2
    /\ store[1].timestamp < store[2].timestamp
    /\ store[1].quotes # store[2].quotes

\* C7: get_latest_snapshot returns None exactly when the collection is empty, and
\* otherwise a stored snapshot whose timestamp no stored snapshot exceeds.
C7_LatestIsNewest ==
    (ret.op = "get_latest_snapshot" /\ ret.status = "ok") =>
        /\ ret.value = None <=> store = <<>>
        /\ ret.value # None =>
              /\ \E d \in Range(store) :
                    d.timestamp = ret.value[1].timestamp /\ d.quotes = ret.value[1].quotes
              /\ \A d \in Range(store) : ret.value[1].timestamp >= d.timestamp

\* C7's case: the newest of two snapshots with different timestamps was returned.
C7_Witness ==
    /\ ret.op = "get_latest_snapshot"
    /\ ret.status = "ok"
    /\ Len(store) = 2
    /\ store[1].timestamp # store[2].timestamp
    /\ ret.value # None

\* How often the snapshot (timestamp, quotes) occurs in the sequence v / the set docs.
TimesIn(v, t, q) == Cardinality({i \in DOMAIN v : v[i].timestamp = t /\ v[i].quotes = q})
TimesAmong(docs, t, q) == Cardinality({d \in docs : d.timestamp = t /\ d.quotes = q})

Descending(v) == \A i, j \in DOMAIN v : i < j => v[i].timestamp >= v[j].timestamp

\* The result v holds exactly the snapshots of the stored documents docs.
SameSnapshots(v, docs) ==
    /\ Len(v) = Cardinality(docs)
    /\ \A d \in docs : TimesIn(v, d.timestamp, d.quotes) = TimesAmong(docs, d.timestamp, d.quotes)

InRange(since) == {d \in Range(store) : d.timestamp >= since}

\* C8 as stated: get_snapshots_since returns stored snapshots with timestamp >=
\* since, newest first, and never more than `limit` of them, for every limit a
\* caller may ask for.
C8_Original ==
    (ret.op = "get_snapshots_since" /\ ret.status = "ok") =>
        /\ \A i \in DOMAIN ret.value : ret.value[i].timestamp >= ret.args.since
        /\ Descending(ret.value)
        /\ \A limit \in 1..MaxLimit : Len(ret.value) <= limit

\* C8 as amended: get_snapshots_since(since) takes no limit and returns every stored
\* snapshot with timestamp >= since, newest first, however many they are.
C8_SnapshotsSinceAll ==
    (ret.op = "get_snapshots_since" /\ ret.status = "ok") =>
        /\ SameSnapshots(ret.value, InRange(ret.args.since))
        /\ Descending(ret.value)

\* C8's case: two snapshots in range, one of them at `since` itself, were returned.
C8_Witness ==
    /\ ret.op = "get_snapshots_since"
    /\ ret.status = "ok"
    /\ Len(ret.value) = 2
    /\ ret.value[2].timestamp = ret.args.since

\* The stored documents get_app_history(args) projects: in the window, holding the app.
Holding(args) ==
    {d \in Range(store) :
        d.timestamp >= args.now - args.hours /\ args.app_name \in DOMAIN d.quotes}

RatesIn(v, t, r) == Cardinality({i \in DOMAIN v : v[i].timestamp = t /\ v[i].rate = r})
RatesAmong(docs, app, t, r) ==
    Cardinality({d \in docs : d.timestamp = t /\ d.quotes[app] = r})

\* The history v holds one element per document of docs, with its rate for app.
SameHistory(v, docs, app) ==
    /\ Len(v) = Cardinality(docs)
    /\ \A d \in docs :
          RatesIn(v, d.timestamp, d.quotes[app])
              = RatesAmong(docs, app, d.timestamp, d.quotes[app])

\* C9: get_app_history(provider, hours) returns one {timestamp, rate} element for
\* each stored snapshot with timestamp >= now - hours that holds the provider, the
\* rate being the snapshot's rate for it; it skips the other snapshots, orders the
\* elements newest first, and returns the empty list when there is no such snapshot.
C9_AppHistoryProjection ==
    (ret.op = "get_app_history" /\ ret.status = "ok") =>
        /\ SameHistory(ret.value, Holding(ret.args), ret.args.app_name)
        /\ Descending(ret.value)
        /\ Holding(ret.args) = {} => ret.value = <<>>

\* C9's case: of two snapshots in the window, the one holding the provider was
\* projected and the other skipped.
C9_Witness ==
    /\ ret.op = "get_app_history"
    /\ ret.status = "ok"
    /\ Len(ret.value) = 1
    /\ Cardinality(InRange(ret.args.now - ret.args.hours)) = 2

\* get_app_history returned twice in a row for the same app_name and hours.
HistoryTwice ==
    /\ ret.op = "get_app_history"
    /\ ret.status = "ok"
    /\ prev.op = "get_app_history"
    /\ prev.status = "ok"
    /\ prev.args.app_name = ret.args.app_name
    /\ prev.args.hours = ret.args.hours

\* C10 as stated: two get_app_history calls with the same arguments and no write
\* between them return identical results, also when the clock advanced between them.
C10_Original == HistoryTwice => ret.value = prev.value

NoSharedTimestamp(v) == \A i, j \in DOMAIN v : i # j => v[i].timestamp # v[j].timestamp

\* C10 as amended: the two calls return the same elements, newest first, when the
\* same stored snapshots are in the window (timestamp >= now - hours) at both
\* clock readings, and identical lists when moreover no two elements share a
\* timestamp; a snapshot the advancing window start has passed is dropped.
C10_HistoryRepeatable ==
    (HistoryTwice /\ Holding(ret.args) = Holding(prev.args)) =>
        /\ \A i \in DOMAIN prev.value :
              RatesIn(ret.value, prev.value[i].timestamp, prev.value[i].rate)
                  = RatesIn(prev.value, prev.value[i].timestamp, prev.value[i].rate)
        /\ Len(ret.value) = Len(prev.value)
        /\ NoSharedTimestamp(prev.value) => ret.value = prev.value

\* C10's case: the clock advanced between the two calls and the history is not empty.
C10_Witness ==
    /\ HistoryTwice
    /\ ret.args.now > prev.args.now
    /\ Holding(ret.args) = Holding(prev.args)
    /\ Len(ret.value) >= 1

\* The positions of the quotes of a list whose symbol is `symbol`.
Positions(quotes, symbol) == {i \in DOMAIN quotes : quotes[i].symbol = symbol}
FirstPosition(quotes, symbol) ==
    CHOOSE i \in Positions(quotes, symbol) : \A j \in Positions(quotes, symbol) : i <= j

\* C11: extract_brlars_rate returns the buy of the first quote, in list order, whose
\* symbol is exactly "BRLARS", and None when the list (empty or not) has no such quote.
C11_FirstBrlarsQuote ==
    x_fn = "extract_brlars_rate" =>
        IF Positions(x_exchange.quotes, "BRLARS") = {}
        THEN x_rate = None
        ELSE x_rate = Some(x_exchange.quotes[FirstPosition(x_exchange.quotes, "BRLARS")].buy)

\* Extraction was applied to a list that starts with a "brlars" quote and then holds two
\* BRLARS quotes with different buys: the first BRLARS quote's buy came back.
C11_Witness ==
    /\ x_fn = "extract_brlars_rate"
    /\ Len(x_exchange.quotes) = 3
    /\ x_exchange.quotes[1].symbol = "brlars"
    /\ x_exchange.quotes[2] = Q("BRLARS", 6)
    /\ x_exchange.quotes[3] = Q("BRLARS", 5)
    /\ x_rate = Some(6)

\* C12: extract_brlusd_rate returns the buy of the (first) BRLUSD quote whenever one is
\* present, wherever the BRLUSDT quotes stand; the buy of the (first) BRLUSDT quote when
\* only BRLUSDT is present; and None when neither is.
C12_PrimaryBeforeAlternate ==
    x_fn = "extract_brlusd_rate" =>
        LET quotes == x_exchange.quotes IN
        IF Positions(quotes, "BRLUSD") # {}
        THEN x_rate = Some(quotes[FirstPosition(quotes, "BRLUSD")].buy)
        ELSE IF Positions(quotes, "BRLUSDT") # {}
        THEN x_rate = Some(quotes[FirstPosition(quotes, "BRLUSDT")].buy)
        ELSE x_rate = None

\* A BRLUSDT quote stands before the BRLUSD quote, with another buy, and the BRLUSD
\* quote's buy came back.
C12_Witness ==
    /\ x_fn = "extract_brlusd_rate"
    /\ Len(x_exchange.quotes) = 3
    /\ x_exchange.quotes[1] = Q("BRLUSDT", 5)
    /\ x_exchange.quotes[2].symbol = "BRLARS"
    /\ x_exchange.quotes[3] = Q("BRLUSD", 6)
    /\ x_rate = Some(6)

\* The number of entries of a log, among its first n, that lie inside the window that
\* ends at clock reading t (all of them, or the allowed ones only).
CallsInWindow(log, n, t) ==
    Cardinality({i \in 1..n : log[i].at > t - RATE_LIMIT_WINDOW})
AllowedInWindow(log, n, t) ==
    Cardinality({i \in 1..n : log[i].allowed /\ log[i].at > t - RATE_LIMIT_WINDOW})
StampsInWindow(times, t) ==
    Cardinality({i \in DOMAIN times : times[i] > t - RATE_LIMIT_WINDOW})
LastIsAllowed == rl_log[rl_ret.key][Len(rl_log[rl_ret.key])]

\* C13: an is_allowed(key) call returns true exactly when fewer than RATE_LIMIT_REQUESTS
\* earlier calls for the key were allowed inside the window that ends at the call: so
\* the first RATE_LIMIT_REQUESTS calls inside a window are allowed, the next call inside
\* it is denied, and a call made after every earlier one has left the window is allowed
\* again; and no key ever holds more than RATE_LIMIT_REQUESTS in-window timestamps.
C13_SlidingWindow ==
    /\ rl_ret.op = "is_allowed" =>
         LET log == rl_log[rl_ret.key]
             n == Len(log) - 1
             t == log[n + 1].at
         IN  /\ log[n + 1].allowed = rl_ret.value
             /\ rl_ret.value = (AllowedInWindow(log, n, t) < RATE_LIMIT_REQUESTS)
             /\ CallsInWindow(log, n, t) < RATE_LIMIT_REQUESTS => rl_ret.value
             /\ (CallsInWindow(log, n, t) = RATE_LIMIT_REQUESTS
                   /\ AllowedInWindow(log, n, t) = RATE_LIMIT_REQUESTS) => ~rl_ret.value
             /\ CallsInWindow(log, n, t) = 0 => rl_ret.value
    /\ \A key \in DOMAIN rl_requests :
         StampsInWindow(rl_requests[key], rl_now) <= RATE_LIMIT_REQUESTS

\* A client made RATE_LIMIT_REQUESTS allowed calls, was denied inside the same window,
\* and its latest call, after all of them left the window, was allowed.
C13_Witness ==
    /\ rl_ret.op = "is_allowed"
    /\ rl_ret.value
    /\ LET log == rl_log[rl_ret.key]
           n == Len(log) - 1
       IN  /\ n = RATE_LIMIT_REQUESTS + 1
           /\ \A i \in 1..RATE_LIMIT_REQUESTS : log[i].allowed
           /\ ~log[n].allowed
           /\ CallsInWindow(log, RATE_LIMIT_REQUESTS, log[n].at) = RATE_LIMIT_REQUESTS
           /\ CallsInWindow(log, n, log[n + 1].at) = 0

\* The latest request was answered; the limiter rejected it, or let it through.
Answered == h_req # NoRequest
Rejected == Answered /\ ~rl_log[h_req.client][Len(rl_log[h_req.client])].allowed
Let_Through == Answered /\ rl_log[h_req.client][Len(rl_log[h_req.client])].allowed

\* C14: a request the rate limiter rejects is answered 429 with a structured error
\* body whose error is RateLimitExceeded and whose details hold limit, window,
\* remaining and retry_after, and the endpoint function does not run.
C14_Original ==
    Rejected =>
        /\ h_resp.status = 429
        /\ h_resp.body.kind = "error"
        /\ h_resp.body.error = "RateLimitExceeded"
        /\ h_resp.body.details # None
        /\ {"limit", "window", "remaining", "retry_after"} \subseteq
               DOMAIN h_resp.body.details[1]
        /\ ~h_route.endpoint

\* The identifier X-Request-ID has to carry for a request: the inbound header's when
\* there is one (an empty header counting either way), a generated one otherwise.
ExpectedIds(req) ==
    IF req.request_id = None THEN GeneratedIds
    ELSE IF req.request_id[1] = "" THEN GeneratedIds \cup {""}
    ELSE {req.request_id[1]}

\* C15: every response carries X-Request-ID, equal to the inbound X-Request-ID header
\* when one was supplied and newly generated otherwise, and a structured error body
\* holds the same identifier as request_id.
C15_Original ==
    Answered =>
        /\ h_resp.request_id # NoHeader
        /\ h_resp.request_id[1] \in ExpectedIds(h_req)
        /\ h_resp.body.kind = "error" => h_resp.body.request_id = h_resp.request_id[1]

\* The two probes of the latest /health request.
HealthAnswered == Let_Through /\ h_req.route = "health"
LatestProbe == h_route.calls[1]
PingProbe == h_route.calls[2]

TypedFailureRaised == Let_Through /\ h_route.exc.cls \in ServiceClasses

\* The status the kinds of failure are answered with.
StatusOfKind(cls) ==
    CASE cls = "QuoteAPIConnectionError"  -> 503
      [] cls = "QuoteAPITimeoutError"     -> 408
      [] cls = "QuoteDatabaseError"       -> 503
      [] cls = "QuoteDataValidationError" -> 422
      [] cls = "QuoteDataParsingError"    -> 502
      [] cls = "QuoteServiceError"        -> 500

StoreFailed ==
    /\ Let_Through
    /\ h_req.route \in {"latest", "apps"}
    /\ h_route.calls # <<>>
    /\ h_route.calls[1].status = "raise"

\* C18: when the store operation of GET /latest or GET /apps/{app_name} fails, the
\* endpoint raises the typed storage failure and the client gets a structured error
\* body with status 503; the failure is never an untyped exception.
C18_Original ==
    StoreFailed =>
        /\ h_route.exc.cls = "QuoteDatabaseError"
        /\ h_resp.status = 503
        /\ h_resp.body.kind = "error"
        /\ h_resp.exc = NoException

\* The latest request is a GET /apps/{app_name} that the limiter let through.
AppsAnswered == Let_Through /\ h_req.route = "apps"
HoursAsked == IF h_req.hours = None THEN 24 ELSE h_req.hours[1]

LatestAnswered ==
    /\ Let_Through
    /\ h_req.route = "latest"
    /\ h_route.calls # <<>>
    /\ h_route.calls[1].status = "ok"

\* The stored snapshots no other stored snapshot is newer than.
NewestStored == {i \in DOMAIN store : \A j \in DOMAIN store :
                                         store[j].timestamp <= store[i].timestamp}

FetchExhausted ==
    /\ c_fsq.status = "raise"
    /\ c_fsq.cause \in RequestsClasses

\* C21: in fetch_and_save_quotes, the failure _fetch_from_api ends with once its
\* NETWORK_RETRY.max_attempts calls are used up is mapped by its kind: a timeout to
\* QuoteAPITimeoutError with timeout 30 (also when it is a connection failure as
\* well), a connection failure to QuoteAPIConnectionError, any other requests
\* failure (an HTTP error status) to QuoteAPIConnectionError with the message
\* "API request failed: ..."; and save_snapshot is not called.
C21_TerminalFailureMapping ==
    FetchExhausted =>
        /\ c_count.fetches = NETWORK_RETRY.max_attempts
        /\ IsInstance(c_fsq.cause, {"Timeout"}) =>
              /\ c_fsq.cls = "QuoteAPITimeoutError"
              /\ c_fsq.details = [timeout_seconds |-> 30]
        /\ (~IsInstance(c_fsq.cause, {"Timeout"})
               /\ IsInstance(c_fsq.cause, {"ConnectionError"})) =>
              /\ c_fsq.cls = "QuoteAPIConnectionError"
              /\ c_fsq.message = <<"Failed to connect to API">>
        /\ (~IsInstance(c_fsq.cause, {"Timeout"})
               /\ ~IsInstance(c_fsq.cause, {"ConnectionError"})) =>
              /\ c_fsq.cls = "QuoteAPIConnectionError"
              /\ c_fsq.message[1] = "API request failed: "
        /\ c_count.saves = 0
        /\ c_count.added = 0

\* The third call of requests.get failed with a timeout that is a connection failure
\* too, and fetch_and_save_quotes raised QuoteAPITimeoutError.
C21_Witness ==
    /\ FetchExhausted
    /\ c_fsq.cause = "ConnectTimeout"
    /\ c_fsq.cls = "QuoteAPITimeoutError"
    /\ c_net_attempt = NETWORK_RETRY.max_attempts - 1
    /\ c_count.saves = 0

\* The failures of fetch_and_save_quotes that collect_quotes_background runs it again
\* for.
ServiceFailures == {"QuoteAPIConnectionError", "QuoteAPITimeoutError",
                    "QuoteDataParsingError"}

JobProcessed == s_last'.n # s_last.n
JobStarted == JobProcessed /\ s_last'.action = "run"
CycleRunning == c_pc # "idle"

\* C23: two collection cycles are never in progress at once.  The job is started only
\* while no cycle is running; run times that come due while a cycle runs (its retry
\* delays included) are dropped and leave the running cycle as it is; however many
\* run times are due, the job is run at most once for them; and when the latest run
\* time is more than the grace time (60 s) late no cycle is started and nothing stays
\* queued.
C23_OneCycleAtATime ==
    /\ [][JobStarted => ~CycleRunning]_vars
    /\ [][(JobProcessed /\ CycleRunning) =>
             /\ s_last'.action = "max_instances"
             /\ UNCHANGED cycleVars
             /\ s_due' = <<>>]_vars
    /\ [][JobProcessed =>
             /\ s_last'.runs <= 1
             /\ Len(s_last'.run_times) = 1
             /\ s_last'.run_times[1] = s_due[Len(s_due)]
             /\ s_due' = <<>>]_vars
    /\ [][(JobProcessed /\ (s_now - s_due[Len(s_due)]) * 60 > 60) =>
             /\ s_last'.action # "run"
             /\ UNCHANGED cycleVars
             /\ s_due' = <<>>]_vars
    /\ [][(JobProcessed /\ ~CycleRunning /\ (s_now - s_due[Len(s_due)]) * 60 <= 60) =>
             JobStarted]_vars

\* A run time came due while the cycle was waiting in the background retry delay: it
\* was dropped and the cycle is still waiting.
C23_Witness ==
    /\ s_last.action = "max_instances"
    /\ s_last.n >= 2
    /\ s_now >= 2
    /\ c_pc = "bg_sleep"
    /\ s_due = <<>>

\* C24: a cycle that fails after its retries are used up ends that cycle only.  The
\* scheduler stays able to start the job, the cycle the next run time starts begins
\* with every attempt counter at its start and nothing counted, whatever the cycle
\* before did, and in every cycle, the first or a later one, the network wrapper gives
\* up only after NETWORK_RETRY.max_attempts calls, the storage wrapper retries only
\* below DATABASE_RETRY.max_attempts and the background wrapper gives up on a service
\* failure only after BACKGROUND_RETRY.max_attempts invocations.
C24_CyclesIndependent ==
    /\ [][JobStarted =>
             /\ c_pc' = "fetch"
             /\ c_bg_attempt' = 0
             /\ c_net_attempt' = 0
             /\ c_db_attempt' = 0
             /\ c_count' = NoCount
             /\ c_fsq' = NoFsq
             /\ c_result' = NoCycle]_vars
    /\ []((c_pc = "idle" /\ s_due # <<>> /\ s_now = s_due[Len(s_due)]) =>
             ENABLED SchedulerWakeup)
    /\ [](FetchExhausted => c_count.fetches = NETWORK_RETRY.max_attempts)
    /\ [](c_pc = "net_sleep" => c_count.fetches < NETWORK_RETRY.max_attempts)
    /\ [](c_pc = "db_sleep" => c_db_attempt + 1 < DATABASE_RETRY.max_attempts)
    /\ []((c_pc = "idle" /\ c_result.status = "raise"
              /\ c_result.exc \in ServiceFailures) =>
             c_bg_attempt + 1 = BACKGROUND_RETRY.max_attempts)
    /\ [](c_pc = "bg_sleep" => c_bg_attempt + 1 < BACKGROUND_RETRY.max_attempts)

\* The cycle before failed with its retries used up, and the cycle after it has again
\* made all the calls of the network wrapper in both invocations and failed.
C24_Witness ==
    /\ c_prev.status = "raise"
    /\ c_prev.exc = "QuoteAPITimeoutError"
    /\ c_pc = "idle"
    /\ c_result.status = "raise"
    /\ c_result.exc = "QuoteAPIConnectionError"
    /\ c_bg_attempt + 1 = BACKGROUND_RETRY.max_attempts
    /\ c_count.fetches = NETWORK_RETRY.max_attempts
    /\ s_last.n >= 2

\* The operations of a tracker call that read or write the snapshots.
CollectionQueries == {"find", "find_one", "insert_one"}

\* C25: over any sequence of save_snapshot, get_latest_snapshot, get_snapshots_since
\* and get_app_history calls on one tracker, createIndexes() completes at most once,
\* and every find, find_one and insert_one is issued after it completed: in an
\* earlier call, or earlier in the same call.  Once it has completed, a call issues
\* nothing but these.
C25_IndexesOnceAndFirst ==
    /\ [](coll_log.completed <= 1)
    /\ [](indexes_created <=> coll_log.completed = 1)
    /\ [][\A k \in DOMAIN coll_log'.ops :
             coll_log'.ops[k] \in CollectionQueries =>
                 \/ coll_log.completed = 1
                 \/ \E j \in 1..(k - 1) : coll_log'.ops[j] = "createIndexes"]_vars
    /\ [][(coll_log.completed = 1 /\ coll_log' # coll_log) =>
             \A k \in DOMAIN coll_log'.ops : coll_log'.ops[k] \in CollectionQueries]_vars

\* A second get_app_history on the tracker whose first call created the indexes: it
\* issued the find and nothing else.
C25_Witness ==
    /\ ret.op = "get_app_history"
    /\ ret.status = "ok"
    /\ prev.op = "get_app_history"
    /\ coll_log = [completed |-> 1, ops |-> <<"find">>]
    /\ store # <<>>

\* The wrapper gave up on the final attempt: `if attempt == max_attempts - 1: ... raise`.
Exhausted == r_pc = "raised" /\ r_result.via = "reraise"

\* The records of level "error" in the wrapper's log.
ErrorRecords == {k \in DOMAIN r_log : r_log[k].level = "error"}

\* C26 (as stated): when the wrapper has used up its attempts, the failure it raises is
\* the last one and carries the wrapped operation's identity and the attempt count.
C26_Original ==
    Exhausted =>
        /\ r_result.id = Len(r_hist)
        /\ {"func", "attempts"} \subseteq DOMAIN r_result
        /\ r_result.func = r_cfg.name
        /\ r_result.attempts = r_cfg.max_attempts

\* C26 (amended): when the wrapper, with max_attempts at least 1, has used up its
\* attempts, it raises the failure of the last invocation as it was caught, with
\* nothing added to it; the operation's name and the attempt count are in the one
\* record it logs at level error before raising, the last of its log, whose count is
\* the number of invocations made.  It logs at level error in no other case.
C26_ExhaustedRaisesLast ==
    /\ Exhausted =>
        /\ r_cfg.max_attempts >= 1
        /\ Len(r_hist) = r_cfg.max_attempts
        /\ r_result.kind = "raise"
        /\ r_result.id = Len(r_hist)
        /\ r_result.cls = r_hist[Len(r_hist)]
        /\ DOMAIN r_result = DOMAIN NoResult
        /\ ErrorRecords = {Len(r_log)}
        /\ r_log[Len(r_log)].func = r_cfg.name
        /\ r_log[Len(r_log)].attempts = Len(r_hist)
        /\ r_log[Len(r_log)].exc = r_result.id
    /\ ErrorRecords # {} => Exhausted

\* Three invocations failed, the first and the last with different classes, and the
\* wrapper raised the last.
C26_Witness ==
    /\ Exhausted
    /\ Len(r_hist) = 3
    /\ r_hist[1] # r_hist[3]
    /\ Len(r_log) = 3
    /\ r_result.cls = r_hist[3]

\* The delay computed after failed attempt i (0-indexed) and the sleep taken for it.
DelayAfter(i) == r_delays[i + 1]
SleepAfter(i) == r_sleeps[i + 1].dur

\* C27: the delay after failed attempt i is min(base_delay * backoff_factor^i,
\* max_delay); the sleep taken is that value without jitter, and with jitter that
\* value times a factor in [0.5, 1.0).  No sleep exceeds max_delay and, without
\* jitter, the sleeps are non-decreasing in i.
C27_DelaySchedule ==
    /\ Len(r_sleeps) = Len(r_delays)
    /\ \A i \in 0..(Len(r_delays) - 1) :
        /\ DelayAfter(i) = Min(r_cfg.base_delay * Pow(r_cfg.backoff_factor, i),
                               r_cfg.max_delay)
        /\ ~r_cfg.jitter => SleepAfter(i) = DelayAfter(i)
        /\ r_cfg.jitter => /\ 2 * SleepAfter(i) >= DelayAfter(i)
                           /\ SleepAfter(i) < DelayAfter(i)
        /\ SleepAfter(i) <= r_cfg.max_delay
    /\ ~r_cfg.jitter =>
        \A i, j \in 0..(Len(r_delays) - 1) : i <= j => SleepAfter(i) <= SleepAfter(j)

\* Two sleeps were taken with jitter under a max_delay that the second delay reaches:
\* the second delay is max_delay, below base_delay * backoff_factor, and each sleep
\* is shorter than its delay.
C27_Witness ==
    /\ r_cfg.jitter
    /\ Len(r_delays) = 2
    /\ DelayAfter(1) = r_cfg.max_delay
    /\ r_cfg.max_delay < r_cfg.base_delay * r_cfg.backoff_factor
    /\ DelayAfter(0) < DelayAfter(1)
    /\ SleepAfter(1) < DelayAfter(1)
    /\ SleepAfter(0) > SleepAfter(1)

\* This step is a call of save_snapshot by the cycle that ended with the validation
\* failure: the payload holds no BRLARS rate.
ValidationFailedStep ==
    /\ c_pc = "save"
    /\ c_count'.saves = c_count.saves + 1
    /\ ret'.status = "raise"
    /\ ret'.exc = "ValueError"

\* C28 (as stated): when extraction yields no BRLARS rate, the cycle stops at the
\* validation failure without a retry: save_snapshot has been invoked once in the
\* cycle, nothing was written and the cycle is over, so that nothing is fetched again.
C28_Original ==
    [][ValidationFailedStep =>
           /\ c_pc' = "idle"
           /\ c_count'.saves = 1
           /\ c_count'.added = 0
           /\ store' = store]_vars

\* The latest invocation of fetch_and_save_quotes raised the parsing failure.
ParsingFailed == c_fsq.status = "raise" /\ c_fsq.cls = "QuoteDataParsingError"

\* C29: when the body is not valid JSON, fetch_and_save_quotes raises the parsing
\* failure, made from the ValueError of response.json(), whose preview is absent (the
\* body is empty) or holds at most the first PreviewLength characters of the body;
\* save_snapshot has not been called; and the invocation is over, so nothing is
\* fetched again in it: every fetch it made was an attempt of the network wrapper, the
\* last of which returned the body.
C29_ParsingFailure ==
    ParsingFailed =>
        /\ c_fsq.message = <<"Invalid JSON response">>
        /\ c_fsq.cause = "ValueError"
        /\ DOMAIN c_fsq.details = {"response_preview"}
        /\ \/ c_fsq.details.response_preview = None
           \/ /\ c_fsq.details.response_preview[1].of = "response.text"
              /\ c_fsq.details.response_preview[1].len \in 1..PreviewLength
        /\ c_count.saves = 0
        /\ c_count.added = 0
        /\ c_data = NoData
        /\ c_pc \in {"bg_sleep", "idle"}
        /\ c_count.fetches = c_net_attempt + 1
        /\ c_count.fetches <= NETWORK_RETRY.max_attempts

\* The second invocation of the cycle raised the parsing failure with a full preview,
\* after one failed attempt of the network wrapper, and the cycle ended with it.
C29_Witness ==
    /\ ParsingFailed
    /\ c_fsq.details.response_preview # None
    /\ c_fsq.details.response_preview[1].len = PreviewLength
    /\ c_count.fetches = 2
    /\ c_bg_attempt = 1
    /\ c_pc = "idle"
    /\ c_result = [status |-> "raise", exc |-> "QuoteDataParsingError"]

\* The cycle ended with fetch_and_save_quotes returning an identifier.
CycleSucceeded == c_pc = "idle" /\ c_result.status = "ok" /\ c_fsq.status = "ok"

\* C30 (as stated): a successful cycle has added exactly one snapshot document, and
\* no cycle adds more than one, whatever the storage wrapper re-invoked.
C30_Original ==
    /\ c_count.added <= 1
    /\ CycleSucceeded => c_count.added = 1

\* The providers of a payload that list a BRLARS quote, each with the buy of its
\* first BRLARS quote, whatever that value is.
FirstBrlarsBuys(api_data) ==
    LET listed == {a \in DOMAIN api_data : extract_brlars_rate(api_data[a]) # None}
    IN  [a \in listed |-> extract_brlars_rate(api_data[a])[1]]

\* C31 (as stated): the snapshot save_snapshot persists maps every provider that lists
\* a BRLARS quote to the buy of its first BRLARS quote, for every buy value including
\* 0, and no other provider; and save_snapshot raises the "no BRLARS quotes" failure
\* only when no provider lists a BRLARS quote.
C31_Original ==
    /\ (ret.op = "save_snapshot" /\ ret.status = "ok") =>
          /\ store # <<>>
          /\ store[Len(store)].quotes = FirstBrlarsBuys(ret.args)
    /\ (ret.op = "save_snapshot" /\ ret.exc = "ValueError") => NoBrlarsRate(ret.args)

\* C32: a collection cycle is bounded.  From the scheduler starting it to its end the
\* upstream is requested at most NETWORK_RETRY.max_attempts times in one invocation of
\* fetch_and_save_quotes and at most NETWORK_RETRY.max_attempts *
\* BACKGROUND_RETRY.max_attempts times in all, and save_snapshot is invoked at most
\* DATABASE_RETRY.max_attempts times, whatever the upstream and the store do; and
\* the three attempt counters stay below their max_attempts.
C32_CycleBounded ==
    /\ c_count.fetches <= NETWORK_RETRY.max_attempts
    /\ c_count.requests <= NETWORK_RETRY.max_attempts * BACKGROUND_RETRY.max_attempts
    /\ c_count.saves <= DATABASE_RETRY.max_attempts
    /\ c_net_attempt < NETWORK_RETRY.max_attempts
    /\ c_db_attempt < DATABASE_RETRY.max_attempts
    /\ c_bg_attempt < BACKGROUND_RETRY.max_attempts

\* A cycle that used all of it: six requests of the upstream over two invocations and
\* two calls of save_snapshot, then it ended.
C32_Witness ==
    /\ c_pc = "idle"
    /\ c_result.status = "raise"
    /\ c_count.requests = NETWORK_RETRY.max_attempts * BACKGROUND_RETRY.max_attempts
    /\ c_count.saves = DATABASE_RETRY.max_attempts
    /\ s_last.action = "run"

\* The cycle is waiting in the delay of one of its retry wrappers.
InBackoffDelay == c_pc \in CycleSleeps

\* C33 (as stated): while a scheduled collection cycle waits in a backoff delay, the
\* event loop can serve an HTTP request: a request to /health can be answered.
C33_Original == InBackoffDelay => ENABLED HttpHealthCheck

\* The entry of key k in a limiter table: its timestamp list, or None when the key
\* was never seen.
EntryOf(requests, k) == IF k \in DOMAIN requests THEN Some(requests[k]) ELSE None

\* This step is a call of is_allowed, or of get_remaining_requests.
IsAllowedStep == rl_calls' = rl_calls + 1 /\ rl_ret'.op = "is_allowed"
RemainingStep == rl_calls' = rl_calls + 1 /\ rl_ret'.op = "get_remaining_requests"

\* C34: is_allowed(k1) leaves the entry of every other key k2 as it was (its list, or
\* its absence), and with it what is_allowed(k2) and get_remaining_requests(k2) answer
\* at any later clock reading; get_remaining_requests(k) returns RATE_LIMIT_REQUESTS
\* less the number of in-window timestamps of k, not below 0, returns
\* RATE_LIMIT_REQUESTS for a key never seen, and leaves the table as it was.
C34_KeysIndependentReadsPure ==
    /\ [][IsAllowedStep =>
            \A k2 \in ClientKeys \ {rl_ret'.key} :
                /\ EntryOf(rl_requests', k2) = EntryOf(rl_requests, k2)
                /\ \A t \in rl_now..MaxClock :
                    /\ is_allowed(rl_requests', k2, t).allowed
                           = is_allowed(rl_requests, k2, t).allowed
                    /\ get_remaining_requests(rl_requests', k2, t)
                           = get_remaining_requests(rl_requests, k2, t)]_vars
    /\ [][RemainingStep =>
            /\ rl_requests' = rl_requests
            /\ rl_ret'.value >= 0
            /\ rl_ret'.key \notin DOMAIN rl_requests =>
                   rl_ret'.value = RATE_LIMIT_REQUESTS
            /\ rl_ret'.key \in DOMAIN rl_requests =>
                   /\ StampsInWindow(rl_requests[rl_ret'.key], rl_now)
                          <= RATE_LIMIT_REQUESTS
                   /\ rl_ret'.value = RATE_LIMIT_REQUESTS
                          - StampsInWindow(rl_requests[rl_ret'.key], rl_now)]_vars

\* is_allowed was called for one key while the other key's list held timestamps that
\* had left the window: they are still there.
C34_Witness ==
    /\ rl_ret.op = "is_allowed"
    /\ \E k2 \in DOMAIN rl_requests \ {rl_ret.key} :
         /\ rl_requests[k2] # <<>>
         /\ StampsInWindow(rl_requests[k2], rl_now) = 0
    /\ Len(rl_requests[rl_ret.key]) = 1

\* The timestamps of a list that equal t.
StampsAt(times, t) == Cardinality({i \in DOMAIN times : times[i] = t})

\* The calls of a key's log among the first n that were denied.
DeniedAmong(log, n) == Cardinality({i \in 1..n : ~log[i].allowed})

\* C35: a denied is_allowed call records no timestamp: the key's list holds no more
\* timestamps of that instant than before, and none that it did not hold.  So a client
\* whose previous call, denied, was RATE_LIMIT_WINDOW or longer ago is allowed, however
\* many of its calls were denied before.
C35_DeniedNotRecorded ==
    /\ [][(IsAllowedStep /\ ~rl_ret'.value) =>
            LET key == rl_ret'.key IN
            /\ key \in DOMAIN rl_requests
            /\ Len(rl_requests'[key]) <= Len(rl_requests[key])
            /\ StampsAt(rl_requests'[key], rl_now) = StampsAt(rl_requests[key], rl_now)
            /\ \A i \in DOMAIN rl_requests'[key] :
                   \E j \in DOMAIN rl_requests[key] :
                       rl_requests[key][j] = rl_requests'[key][i]]_vars
    /\ [](rl_ret.op = "is_allowed" =>
            LET log == rl_log[rl_ret.key]
                n == Len(log) - 1
            IN  (n >= 1 /\ ~log[n].allowed
                   /\ log[n].at + RATE_LIMIT_WINDOW <= log[n + 1].at) => rl_ret.value)

\* A client used up its requests, was denied twice, the second time later than the
\* first, sent nothing for RATE_LIMIT_WINDOW and was allowed on its next call.
C35_Witness ==
    /\ rl_ret.op = "is_allowed"
    /\ rl_ret.value
    /\ LET log == rl_log[rl_ret.key]
           n == Len(log) - 1
       IN  /\ n = RATE_LIMIT_REQUESTS + 2
           /\ DeniedAmong(log, n) = 2
           /\ log[n - 1].at < log[n].at
           /\ log[n].at + RATE_LIMIT_WINDOW = log[n + 1].at
           /\ rl_requests[rl_ret.key] = <<log[n + 1].at>>

\* C36: the store connection is lazy and made at most once per tracker.  get_tracker()
\* makes one QuoteTracker and returns that instance afterwards, and making it creates
\* no client; the first read of client, db or collection creates one client, with
\* settings.MONGO_URI, and every later read reuses that client, the database taken
\* from it and the collection taken from that database.
C36_LazyConnection ==
    /\ [](/\ conn.trackers <= 1
          /\ conn.clients <= 1
          /\ conn.tracker = conn.trackers
          /\ (conn.client = None) = (conn.clients = 0)
          /\ conn.tracker = 0 => conn.client = None
          /\ conn.client # None => conn.client[1] = MongoClient("settings.MONGO_URI", 1)
          /\ conn.db # None =>
                 conn.client # None /\ conn.db[1].client = conn.client[1]
          /\ conn.collection # None =>
                 conn.db # None /\ conn.collection[1].db = conn.db[1])
    /\ [][/\ GetTracker => conn'.clients = conn.clients
          /\ (conn' # conn /\ ~GetTracker) => conn'.clients = 1
          /\ conn.tracker # 0 => conn'.tracker = conn.tracker
          /\ conn.client # None => conn'.client = conn.client
          /\ conn.db # None => conn'.db = conn.db
          /\ conn.collection # None => conn'.collection = conn.collection]_vars

\* The latest call pinged the store through `db`, and `collection` was read as well:
\* the connection was reached at least twice, with one tracker and one client.
C36_Witness ==
    /\ ret.op = "get_mongo_ping_time"
    /\ conn.collection # None
    /\ conn.trackers = 1
    /\ conn.clients = 1

\* C37: the sync and the async wrapper are equivalent.  Over the parameters and the
\* outcomes of any run, the two wrappers make the same number of invocations, compute
\* the same delays before jitter and end with the same return value or the same
\* exception; and the run, whichever wrapper it went through, made these invocations,
\* took these delays and ended this way.
C37_WrappersEquivalent ==
    LET a == RunWrapper("async", r_cfg, r_hist, WrapperStart)
        s == RunWrapper("sync", r_cfg, r_hist, WrapperStart)
        w == IF r_kind = "async" THEN a ELSE s
    IN  /\ a.calls = s.calls
        /\ a.delays = s.delays
        /\ a.result = s.result
        /\ a.last_exception = s.last_exception
        /\ w.calls = Len(r_hist)
        /\ w.delays = r_delays
        /\ w.modes = [i \in DOMAIN r_sleeps |-> r_sleeps[i].mode]
        /\ r_pc \in {"returned", "raised"} => w.result = r_result

\* A sync run that failed twice with retryable exceptions, took two different delays
\* and returned at its third invocation.
C37_Witness ==
    /\ r_kind = "sync"
    /\ r_pc = "returned"
    /\ Len(r_hist) = 3
    /\ Len(r_delays) = 2
    /\ r_delays[1] < r_delays[2]

\* The calls that start with _ensure_indexes().
EnsuringCall == SaveSnapshot \/ GetLatestSnapshot \/ GetSnapshotsSince \/ GetAppHistory

\* C38: the index flag is set only after createIndexes() succeeded.  A call sets the
\* flag only if createIndexes() completed in it; a call in which createIndexes() raised
\* fails having issued no find, find_one or insert_one, leaves the snapshots as they
\* were and the flag unset; while the flag is unset every call that starts with
\* _ensure_indexes() begins by attempting createIndexes(); and the flag, once set, is
\* never unset.
C38_FlagAfterCreation ==
    /\ [][indexes_created => indexes_created']_vars
    /\ [][(~indexes_created /\ indexes_created') =>
             \E k \in DOMAIN coll_log'.ops : coll_log'.ops[k] = "createIndexes"]_vars
    /\ [][(EnsuringCall /\ ~indexes_created) =>
             /\ coll_log'.ops # <<>>
             /\ coll_log'.ops[1] \in {"createIndexes", "createIndexes raised"}]_vars
    /\ [][(EnsuringCall
             /\ \E k \in DOMAIN coll_log'.ops : coll_log'.ops[k] = "createIndexes raised") =>
             /\ coll_log'.ops = <<"createIndexes raised">>
             /\ ret'.status = "raise"
             /\ store' = store
             /\ ~indexes_created']_vars

\* save_snapshot failed in createIndexes(); the get_latest_snapshot that followed
\* attempted it again, this time with success, and went on to its find_one.
C38_Witness ==
    /\ ret.op = "get_latest_snapshot"
    /\ ret.status = "ok"
    /\ prev.op = "save_snapshot"
    /\ prev.status = "raise"
    /\ prev.exc = "PyMongoError"
    /\ store = <<>>
    /\ indexes_created
    /\ coll_log = [completed |-> 1, ops |-> <<"createIndexes", "find_one">>]

\* The invocations that failed with an exception the wrapper catches, at an attempt
\* that was not the final one.
FailedNonFinal ==
    {k \in DOMAIN r_hist :
        /\ r_hist[k] # "ok"
        /\ IsInstance(r_hist[k], r_cfg.exceptions)
        /\ k < r_cfg.max_attempts}

\* C39: with max_attempts at least 1 the wrapper ends by returning the result of its
\* latest invocation or by raising the exception that invocation raised; the
\* statements after the loop are never reached; one delay is taken for each failed
\* attempt that was not the final one, each between two invocations, and none after
\* the final failure or after a success.
C39_NoFallThrough ==
    r_cfg.max_attempts >= 1 =>
        /\ ~ENABLED RetryFallThrough
        /\ r_result.via # "fallthrough"
        /\ r_pc \in {"returned", "raised"} =>
              /\ r_hist # <<>>
              /\ r_result.id = Len(r_hist)
              /\ r_pc = "returned" => r_hist[r_result.id] = "ok" /\ r_result.kind = "return"
              /\ r_pc = "raised" =>
                    /\ r_result.kind = "raise"
                    /\ r_result.cls = r_hist[r_result.id]
                    /\ r_result.cls \in RaisedClasses
              /\ Len(r_sleeps) = Len(r_hist) - 1
        /\ r_pc \in {"loop", "sleep"} => Len(r_sleeps) = Len(r_hist)
        /\ Len(r_sleeps) = Cardinality(FailedNonFinal)
        /\ Len(r_delays) = Len(r_sleeps)
        /\ Len(r_hist) <= r_cfg.max_attempts

\* A wrapper with two attempts failed twice with different exceptions: it took one
\* delay, between the two, and raised the second.
C39_Witness ==
    /\ r_cfg.max_attempts = 2
    /\ r_pc = "raised"
    /\ r_result.via = "reraise"
    /\ Len(r_hist) = 2
    /\ r_hist[1] # r_hist[2]
    /\ r_result.cls = r_hist[2]
    /\ Len(r_sleeps) = 1

====
